---- MODULE Spec2Model ----
(***************************************************************************)
(* A model of the layered configuration store of go-conf-builder           *)
(* (src/v1/conf/config.go, src/v1/conf/loaders.go).                        *)
(*                                                                         *)
(* Go strings are sequences of one-character strings, so that Split,      *)
(* ToUpper, ReplaceAll, Atoi and filepath.Ext are computed and not         *)
(* assumed.  Go maps and slices are objects of a heap, so that two         *)
(* references to one map are distinguishable from two equal maps.          *)
(***************************************************************************)
EXTENDS Integers, Sequences, FiniteSets, TLC

\* Bounds of the model.
MaxAddr == 24
\* The RegisterLoader calls the record of calls holds.
MaxRegs == 2
\* The fsnotify watchers in existence at one time.
MaxWatchers == 2
\* The events a watcher holds for its listener at one time.
MaxEvents == 2
\* The goroutines that call WatchConfig and Close.
MaxCallers == 2

(***************************************************************************)
(* Strings                                                                 *)
(***************************************************************************)
ToUpperChar(c) ==
    CASE c = "a" -> "A" [] c = "b" -> "B" [] c = "c" -> "C" [] c = "d" -> "D"
      [] c = "h" -> "H" [] c = "j" -> "J" [] c = "k" -> "K" [] c = "m" -> "M"
      [] c = "n" -> "N" [] c = "o" -> "O" [] c = "p" -> "P" [] c = "s" -> "S"
      [] c = "x" -> "X" [] c = "y" -> "Y" [] c = "l" -> "L" [] c = "f" -> "F"
      [] OTHER -> c

ToLowerChar(c) ==
    CASE c = "A" -> "a" [] c = "B" -> "b" [] c = "C" -> "c" [] c = "D" -> "d"
      [] c = "H" -> "h" [] c = "J" -> "j" [] c = "K" -> "k" [] c = "M" -> "m"
      [] c = "N" -> "n" [] c = "O" -> "o" [] c = "P" -> "p" [] c = "S" -> "s"
      [] c = "X" -> "x" [] c = "Y" -> "y" [] c = "L" -> "l" [] c = "F" -> "f"
      [] OTHER -> c

\* strings.ToUpper, strings.ToLower
ToUpper(s) == [i \in 1..Len(s) |-> ToUpperChar(s[i])]
ToLower(s) == [i \in 1..Len(s) |-> ToLowerChar(s[i])]

\* strings.ReplaceAll for a one-character pattern and replacement
ReplaceAll(s, old, new) == [i \in 1..Len(s) |-> IF s[i] = old THEN new ELSE s[i]]

\* strings.Split(s, sep) for a one-character separator: always at least one
\* part, empty parts kept.
RECURSIVE SplitFrom(_, _, _, _)
SplitFrom(s, sep, i, cur) ==
    IF i > Len(s) THEN <<cur>>
    ELSE IF s[i] = sep THEN <<cur>> \o SplitFrom(s, sep, i + 1, <<>>)
    ELSE SplitFrom(s, sep, i + 1, Append(cur, s[i]))

Split(s, sep) == SplitFrom(s, sep, 1, <<>>)

\* strings.TrimPrefix(s, ".")
TrimDot(s) == IF Len(s) > 0 /\ s[1] = "." THEN Tail(s) ELSE s

DigitChars == {"0", "1", "2", "3", "4", "5", "6", "7", "8", "9"}

DigitVal(c) ==
    CASE c = "0" -> 0 [] c = "1" -> 1 [] c = "2" -> 2 [] c = "3" -> 3
      [] c = "4" -> 4 [] c = "5" -> 5 [] c = "6" -> 6 [] c = "7" -> 7
      [] c = "8" -> 8 [] c = "9" -> 9 [] OTHER -> 0

DigitChar(n) == <<"0", "1", "2", "3", "4", "5", "6", "7", "8", "9">>[n + 1]

RECURSIVE DigitsVal(_, _)
DigitsVal(s, acc) ==
    IF s = <<>> THEN acc ELSE DigitsVal(Tail(s), acc * 10 + DigitVal(Head(s)))

RECURSIVE TrimZeros(_)
TrimZeros(s) == IF Len(s) > 1 /\ Head(s) = "0" THEN TrimZeros(Tail(s)) ELSE s

\* strconv.Atoi: an optional sign, then one or more decimal digits.  A
\* well-formed number of twenty digits or more is out of the range of a
\* 64-bit int: Atoi then returns an error together with the largest int of
\* that sign, which `over` records.  Numbers of ten to nineteen digits are
\* beyond the integers of the model and are not among its inputs.
Atoi(s) ==
    LET signed == Len(s) > 0 /\ s[1] \in {"+", "-"}
        digits == IF signed THEN Tail(s) ELSE s
        valid  == Len(digits) > 0 /\ \A i \in 1..Len(digits) : digits[i] \in DigitChars
        neg    == signed /\ s[1] = "-"
    IN  IF ~valid THEN [ok |-> FALSE, n |-> 0, over |-> 0]
        ELSE IF Len(TrimZeros(digits)) >= 20
        THEN [ok |-> FALSE, n |-> 0, over |-> IF neg THEN 0 - 1 ELSE 1]
        ELSE [ok |-> TRUE, over |-> 0,
              n |-> IF neg THEN 0 - DigitsVal(digits, 0) ELSE DigitsVal(digits, 0)]

\* strconv.Itoa, which fmt.Sprint applies to an integer key
RECURSIVE NatDigits(_)
NatDigits(n) == IF n < 10 THEN <<DigitChar(n)>> ELSE Append(NatDigits(n \div 10), DigitChar(n % 10))

Itoa(n) == IF n < 0 THEN <<"-">> \o NatDigits(0 - n) ELSE NatDigits(n)

(***************************************************************************)
(* Values                                                                  *)
(*                                                                         *)
(* A Go value of type any is a scalar, nil, or a reference to a heap       *)
(* object.  The kind of a heap object is its Go type:                      *)
(*   msa map[string]any      maa map[any]any       mss map[string]string   *)
(*   sa  []any               smsa []map[string]any smaa []map[any]any      *)
(*   ss  []string            mia map[int]any       si  []int               *)
(* A float64 is held as its decimal text, a bool as 0 or 1.                *)
(***************************************************************************)
StrV(s) == [t |-> "string", s |-> s, i |-> 0, a |-> 0]
IntV(n) == [t |-> "int", s |-> <<>>, i |-> n, a |-> 0]
Int64V(n) == [t |-> "int64", s |-> <<>>, i |-> n, a |-> 0]
FloatV(s) == [t |-> "float64", s |-> s, i |-> 0, a |-> 0]
BoolV(b) == [t |-> "bool", s |-> <<>>, i |-> IF b THEN 1 ELSE 0, a |-> 0]
RefV(a) == [t |-> "ref", s |-> <<>>, i |-> 0, a |-> a]
NilV == [t |-> "nil", s |-> <<>>, i |-> 0, a |-> 0]

MapKinds == {"msa", "maa", "mss", "mia"}
SeqKinds == {"sa", "smsa", "smaa", "ss", "si"}
ScalarKinds == {"string", "int", "int64", "float64", "bool"}

Addr == 1..MaxAddr

EmptyMap == [k \in {} |-> NilV]
FreeObj  == [kind |-> "free", m |-> EmptyMap, e |-> <<>>]
MapObj(kind, m) == [kind |-> kind, m |-> m, e |-> <<>>]
SeqObj(kind, e) == [kind |-> kind, m |-> EmptyMap, e |-> e]

EmptyHeap == [a \in Addr |-> FreeObj]

\* The Go type of a value, as a type switch sees it.
KindOf(h, v) == IF v.t = "ref" THEN h[v.a].kind ELSE v.t

FreeAddrs(h) == {a \in Addr : h[a].kind = "free"}

\* Allocation takes the lowest free address.
NewAddr(h) == CHOOSE a \in FreeAddrs(h) : \A b \in FreeAddrs(h) : a <= b

\* Maps are walked one entry at a time; the walk order is fixed per key set.
FirstKey(ks) == CHOOSE k \in ks : TRUE

MapPut(m, k, v) == [x \in (DOMAIN m) \cup {k} |-> IF x = k THEN v ELSE m[x]]

\* h with the map at address a holding v under key k (Go: m[k] = v)
SetKey(h, a, k, v) == [h EXCEPT ![a] = MapObj(@.kind, MapPut(@.m, k, v))]

\* h with the slice at address a holding v at index i, counted from 1
SetElem(h, a, i, v) == [h EXCEPT ![a] = SeqObj(@.kind, [@.e EXCEPT ![i] = v])]

\* make(map...) and make([]any, n): a fresh object at the lowest free address
Make(h, obj) == [h |-> [h EXCEPT ![NewAddr(h)] = obj], v |-> RefV(NewAddr(h))]

(***************************************************************************)
(* Trees: the content of a value with the references followed.  A tree is  *)
(* what a document decodes to and what two values are compared by.         *)
(***************************************************************************)
TStr(s) == [t |-> "string", s |-> s, i |-> 0, m |-> EmptyMap, e |-> <<>>]
TInt(n) == [t |-> "int", s |-> <<>>, i |-> n, m |-> EmptyMap, e |-> <<>>]
TInt64(n) == [t |-> "int64", s |-> <<>>, i |-> n, m |-> EmptyMap, e |-> <<>>]
TFloat(s) == [t |-> "float64", s |-> s, i |-> 0, m |-> EmptyMap, e |-> <<>>]
TBool(b) == [t |-> "bool", s |-> <<>>, i |-> IF b THEN 1 ELSE 0, m |-> EmptyMap, e |-> <<>>]
TNil == [t |-> "nil", s |-> <<>>, i |-> 0, m |-> EmptyMap, e |-> <<>>]
TMap(kind, m) == [t |-> kind, s |-> <<>>, i |-> 0, m |-> m, e |-> <<>>]
TSeq(kind, e) == [t |-> kind, s |-> <<>>, i |-> 0, m |-> EmptyMap, e |-> e]

RECURSIVE Deep(_, _)
Deep(h, v) ==
    IF v.t = "ref" THEN
        IF h[v.a].kind \in MapKinds
        THEN TMap(h[v.a].kind, [k \in DOMAIN h[v.a].m |-> Deep(h, h[v.a].m[k])])
        ELSE TSeq(h[v.a].kind, [i \in DOMAIN h[v.a].e |-> Deep(h, h[v.a].e[i])])
    ELSE IF v.t \in ScalarKinds
    THEN [t |-> v.t, s |-> v.s, i |-> v.i, m |-> EmptyMap, e |-> <<>>]
    ELSE TNil

\* The objects a value reaches, itself included.
RECURSIVE Reach(_, _)
Reach(h, v) ==
    IF v.t # "ref" THEN {}
    ELSE {v.a} \cup UNION {Reach(h, h[v.a].m[k]) : k \in DOMAIN h[v.a].m}
               \cup UNION {Reach(h, h[v.a].e[i]) : i \in DOMAIN h[v.a].e}

\* A Go program building the value a tree describes: one fresh object per
\* map and slice of the tree.
RECURSIVE Build(_, _)
RECURSIVE BuildMap(_, _, _, _)
RECURSIVE BuildSeq(_, _, _, _)
Build(h, tree) ==
    IF tree.t \in MapKinds THEN
        LET r == Make(h, MapObj(tree.t, EmptyMap))
        IN  [h |-> BuildMap(r.h, r.v.a, tree.m, DOMAIN tree.m), v |-> r.v]
    ELSE IF tree.t \in SeqKinds THEN
        LET r == Make(h, SeqObj(tree.t, [i \in 1..Len(tree.e) |-> NilV]))
        IN  [h |-> BuildSeq(r.h, r.v.a, tree.e, 1), v |-> r.v]
    ELSE IF tree.t \in ScalarKinds
    THEN [h |-> h, v |-> [t |-> tree.t, s |-> tree.s, i |-> tree.i, a |-> 0]]
    ELSE [h |-> h, v |-> NilV]

BuildMap(h, a, tm, ks) ==
    IF ks = {} THEN h
    ELSE LET k == FirstKey(ks)
             r == Build(h, tm[k])
         IN  BuildMap(SetKey(r.h, a, k, r.v), a, tm, ks \ {k})

BuildSeq(h, a, te, i) ==
    IF i > Len(te) THEN h
    ELSE LET r == Build(h, te[i])
         IN  BuildSeq(SetElem(r.h, a, i, r.v), a, te, i + 1)

\* The number of objects Build allocates for a tree.
RECURSIVE TreeSize(_)
RECURSIVE SumSizes(_, _)
SumSizes(f, ks) ==
    IF ks = {} THEN 0
    ELSE LET k == FirstKey(ks) IN TreeSize(f[k]) + SumSizes(f, ks \ {k})
TreeSize(tree) ==
    IF tree.t \in MapKinds THEN 1 + SumSizes(tree.m, DOMAIN tree.m)
    ELSE IF tree.t \in SeqKinds THEN 1 + SumSizes(tree.e, DOMAIN tree.e)
    ELSE 0

(***************************************************************************)
(* cloneMap, cloneValue                                                    *)
(***************************************************************************)
RECURSIVE cloneValue(_, _)
RECURSIVE cloneEntries(_, _, _, _)
RECURSIVE cloneElems(_, _, _, _)
cloneValue(h, v) ==
    LET kind == KindOf(h, v) IN
    IF kind \in {"msa", "maa"} THEN
        LET r == Make(h, MapObj(kind, EmptyMap))
        IN  [h |-> cloneEntries(r.h, r.v.a, v.a, DOMAIN h[v.a].m), v |-> r.v]
    ELSE IF kind \in {"sa", "smsa", "smaa"} THEN
        LET r == Make(h, SeqObj("sa", [i \in 1..Len(h[v.a].e) |-> NilV]))
        IN  [h |-> cloneElems(r.h, r.v.a, v.a, 1), v |-> r.v]
    ELSE [h |-> h, v |-> v]

cloneEntries(h, dst, src, ks) ==
    IF ks = {} THEN h
    ELSE LET k == FirstKey(ks)
             r == cloneValue(h, h[src].m[k])
         IN  cloneEntries(SetKey(r.h, dst, k, r.v), dst, src, ks \ {k})

cloneElems(h, dst, src, i) ==
    IF i > Len(h[src].e) THEN h
    ELSE LET r == cloneValue(h, h[src].e[i])
         IN  cloneElems(SetElem(r.h, dst, i, r.v), dst, src, i + 1)

cloneMap(h, src) == IF src.t = "nil" THEN [h |-> h, v |-> NilV] ELSE cloneValue(h, src)

(***************************************************************************)
(* normalizeLoadedMap, normalizeValue                                      *)
(***************************************************************************)
\* fmt.Sprint of a map key
Sprint(k) == IF k.t = "int" THEN Itoa(k.i) ELSE k.s

RECURSIVE normalizeValue(_, _)
RECURSIVE normalizeInPlace(_, _, _)
RECURSIVE normalizeConverted(_, _, _, _)
RECURSIVE normalizeElems(_, _, _, _)
normalizeValue(h, v) ==
    LET kind == KindOf(h, v) IN
    IF kind = "msa" THEN
        [h |-> normalizeInPlace(h, v.a, DOMAIN h[v.a].m), v |-> v]
    ELSE IF kind = "maa" THEN
        LET r == Make(h, MapObj("msa", EmptyMap))
        IN  [h |-> normalizeConverted(r.h, r.v.a, v.a, DOMAIN h[v.a].m), v |-> r.v]
    ELSE IF kind = "sa" THEN
        [h |-> normalizeElems(h, v.a, v.a, 1), v |-> v]
    ELSE IF kind \in {"smsa", "smaa"} THEN
        LET r == Make(h, SeqObj("sa", [i \in 1..Len(h[v.a].e) |-> NilV]))
        IN  [h |-> normalizeElems(r.h, r.v.a, v.a, 1), v |-> r.v]
    ELSE [h |-> h, v |-> v]

normalizeInPlace(h, a, ks) ==
    IF ks = {} THEN h
    ELSE LET k == FirstKey(ks)
             r == normalizeValue(h, h[a].m[k])
         IN  normalizeInPlace(SetKey(r.h, a, k, r.v), a, ks \ {k})

normalizeConverted(h, dst, src, ks) ==
    IF ks = {} THEN h
    ELSE LET k == FirstKey(ks)
             r == normalizeValue(h, h[src].m[k])
         IN  normalizeConverted(SetKey(r.h, dst, StrV(Sprint(k)), r.v), dst, src, ks \ {k})

normalizeElems(h, dst, src, i) ==
    IF i > Len(h[src].e) THEN h
    ELSE LET r == normalizeValue(h, h[src].e[i])
         IN  normalizeElems(SetElem(r.h, dst, i, r.v), dst, src, i + 1)

normalizeLoadedMap(h, values) ==
    IF values.t = "nil" THEN [h |-> h, v |-> NilV] ELSE normalizeValue(h, values)

(***************************************************************************)
(* mergeMaps                                                               *)
(***************************************************************************)
\* mergeEntries that replaces every entry wholesale and never recurses
RECURSIVE mergeEntries_shallow(_, _, _, _)
mergeEntries_shallow(h, dst, src, ks) ==
    IF ks = {} THEN h
    ELSE LET k == FirstKey(ks)
         IN  mergeEntries_shallow(SetKey(h, dst, k, h[src].m[k]), dst, src, ks \ {k})

\* mergeEntries that keeps an existing entry which src does not match in kind
RECURSIVE mergeEntries_keepExisting(_, _, _, _)
RECURSIVE mergeInto_keepExisting(_, _, _)
mergeInto_keepExisting(h, dst, src) ==
    [h |-> mergeEntries_keepExisting(h, dst.a, src.a, DOMAIN h[src.a].m), v |-> dst]

mergeEntries_keepExisting(h, dst, src, ks) ==
    IF ks = {} THEN h
    ELSE LET k == FirstKey(ks)
             v == h[src].m[k]
         IN  IF k \notin DOMAIN h[dst].m
             THEN mergeEntries_keepExisting(SetKey(h, dst, k, v), dst, src, ks \ {k})
             ELSE IF KindOf(h, h[dst].m[k]) = "msa" /\ KindOf(h, v) = "msa"
             THEN mergeEntries_keepExisting(mergeInto_keepExisting(h, h[dst].m[k], v).h,
                                           dst, src, ks \ {k})
             ELSE mergeEntries_keepExisting(h, dst, src, ks \ {k})

RECURSIVE mergeMaps(_, _, _)
RECURSIVE mergeEntries(_, _, _, _)
mergeMaps(h, dst, src) ==
    LET r == IF dst.t = "nil" THEN Make(h, MapObj("msa", EmptyMap)) ELSE [h |-> h, v |-> dst]
    IN  [h |-> mergeEntries(r.h, r.v.a, src.a, DOMAIN h[src.a].m), v |-> r.v]

mergeEntries(h, dst, src, ks) ==
    IF ks = {} THEN h
    ELSE LET k == FirstKey(ks)
             v == h[src].m[k]
             bothMaps == /\ k \in DOMAIN h[dst].m
                         /\ KindOf(h, h[dst].m[k]) = "msa"
                         /\ KindOf(h, v) = "msa"
         IN  IF bothMaps
             THEN LET r == mergeMaps(h, h[dst].m[k], v)
                  IN  mergeEntries(SetKey(r.h, dst, k, r.v), dst, src, ks \ {k})
             ELSE mergeEntries(SetKey(h, dst, k, v), dst, src, ks \ {k})

(***************************************************************************)
(* fetchValue                                                              *)
(***************************************************************************)
Found(v) == [ok |-> TRUE, v |-> v]
NotFound == [ok |-> FALSE, v |-> NilV]

RECURSIVE fetchWalk(_, _, _)
fetchWalk(h, current, parts) ==
    IF parts = <<>> THEN Found(current)
    ELSE LET part == Head(parts)
             kind == KindOf(h, current)
         IN  IF kind \in {"msa", "mss", "maa"} THEN
                 IF StrV(part) \in DOMAIN h[current.a].m
                 THEN fetchWalk(h, h[current.a].m[StrV(part)], Tail(parts))
                 ELSE NotFound
             ELSE IF kind \in {"sa", "smsa", "smaa"} THEN
                 LET idx == Atoi(part)
                 IN  IF ~idx.ok \/ idx.n < 0 \/ idx.n >= Len(h[current.a].e)
                     THEN NotFound
                     ELSE fetchWalk(h, h[current.a].e[idx.n + 1], Tail(parts))
             ELSE NotFound

\* fetchValue with the exact top-level lookup only
fetchValue_noWalk(h, data, key) ==
    IF data.t = "nil" THEN NotFound
    ELSE IF StrV(key) \in DOMAIN h[data.a].m THEN Found(h[data.a].m[StrV(key)])
    ELSE NotFound

\* fetchValue with the walk tried before the exact top-level lookup
fetchValue_walkFirst(h, data, key) ==
    IF data.t = "nil" THEN NotFound
    ELSE IF fetchWalk(h, data, Split(key, ".")).ok THEN fetchWalk(h, data, Split(key, "."))
    ELSE IF StrV(key) \in DOMAIN h[data.a].m THEN Found(h[data.a].m[StrV(key)])
    ELSE NotFound

\* config.go: fetchValue
fetchValue(h, data, key) ==
    IF data.t = "nil" THEN NotFound
    ELSE IF StrV(key) \in DOMAIN h[data.a].m THEN Found(h[data.a].m[StrV(key)])
    ELSE fetchWalk(h, data, Split(key, "."))

(***************************************************************************)
(* State                                                                   *)
(***************************************************************************)
VARIABLES
    heap,        \* the Go heap: maps and slices by address
    conf,        \* the Config under test, a record of its fields
    environ,     \* the process environment: variable name -> value
    fs,          \* the file system: path -> index into Docs, 0 when absent
    callerData,  \* the map a caller passed to MergeConfigMap and still holds
    loaderData,  \* the map a registered custom loader returned and still holds
    ret,         \* what the last call returned to its caller
    registered,  \* the RegisterLoader calls made so far, latest last
    watchers,    \* the fsnotify watchers, each with its listener goroutine
    calls,       \* the WatchConfig and Close calls in progress, by caller
    mu,          \* c.mu and the goroutines that take it, where calls are
                 \* followed lock by lock
    other        \* a second Config of the process, when one was made; the
                 \* calls are made on conf

vars ==
    <<heap, conf, environ, fs, callerData, loaderData, ret, registered, watchers, calls, mu,
      other>>

\* Names used as inputs, written out as Go strings.
Empty == <<>>
kA   == <<"a">>
kAX  == <<"a", ".", "x">>
kAY  == <<"a", ".", "y">>
kAH0 == <<"a", ".", "h", ".", "0">>
kAH9 == <<"a", ".", "h", ".", "9">>
kK   == <<"k">>
fJSON == <<"j", "s", "o", "n">>
fYAML == <<"y", "a", "m", "l">>
fYML  == <<"y", "m", "l">>
fTOML == <<"t", "o", "m", "l">>
fINI  == <<"i", "n", "i">>
fXML  == <<"x", "m", "l">>
fKeep == <<"k">>

NoBindings == [k \in {} |-> Empty]

\* loaders.go: defaultLoaders
defaultLoaders ==
    [f \in {fJSON, fYAML, fYML, fTOML, fINI, fXML} |->
        IF f = fJSON THEN "JSONLoader"
        ELSE IF f \in {fYAML, fYML} THEN "YAMLLoader"
        ELSE IF f = fTOML THEN "TOMLLoader"
        ELSE IF f = fINI THEN "INILoader"
        ELSE "XMLLoader"]

\* The objects in use, in the order a walk from the roots meets them.
RECURSIVE Visit(_, _, _)
RECURSIVE VisitKeys(_, _, _, _)
RECURSIVE VisitElems(_, _, _, _)
Visit(h, v, seen) ==
    IF v.t # "ref" \/ (\E n \in DOMAIN seen : seen[n] = v.a) THEN seen
    ELSE VisitElems(h, v.a, 1, VisitKeys(h, v.a, DOMAIN h[v.a].m, Append(seen, v.a)))

VisitKeys(h, a, ks, seen) ==
    IF ks = {} THEN seen
    ELSE LET k == FirstKey(ks) IN VisitKeys(h, a, ks \ {k}, Visit(h, h[a].m[k], seen))

VisitElems(h, a, i, seen) ==
    IF i > Len(h[a].e) THEN seen
    ELSE VisitElems(h, a, i + 1, Visit(h, h[a].e[i], seen))

RECURSIVE VisitAll(_, _, _)
VisitAll(h, roots, seen) ==
    IF roots = <<>> THEN seen ELSE VisitAll(h, Tail(roots), Visit(h, Head(roots), seen))

\* Garbage collection.  Objects no root reaches are freed, and the objects in
\* use are moved to the lowest addresses in walk order; every reference is
\* renamed with them, so which references are equal is unchanged.  An
\* address is not observable in Go, only whether two references are one.
Collect(h, roots) ==
    LET order == VisitAll(h, roots, <<>>)
        NewOf(a) == CHOOSE n \in DOMAIN order : order[n] = a
        Ren(v) == IF v.t = "ref" THEN RefV(NewOf(v.a)) ELSE v
        Moved(o) == [kind |-> o.kind,
                     m |-> [k \in DOMAIN o.m |-> Ren(o.m[k])],
                     e |-> [i \in DOMAIN o.e |-> Ren(o.e[i])]]
    IN  [h |-> [n \in Addr |-> IF n <= Len(order) THEN Moved(h[order[n]]) ELSE FreeObj],
         roots |-> [i \in DOMAIN roots |-> Ren(roots[i])]]

\* The state after a call: the heap collected, the Config and the references
\* held outside it renamed accordingly.
FinishBoth(h, c, o, cd, ld) ==
    LET g == Collect(h, <<c.defaults, c.values, cd, ld, o.defaults, o.values>>)
    IN  /\ heap' = g.h
        /\ conf' = [c EXCEPT !.defaults = g.roots[1], !.values = g.roots[2]]
        /\ callerData' = g.roots[3]
        /\ loaderData' = g.roots[4]
        /\ other' = [o EXCEPT !.defaults = g.roots[5], !.values = g.roots[6]]

\* The state after a call on conf: the maps of the other Config stay
\* reachable from it.
Finish(h, c, cd, ld) == FinishBoth(h, c, other, cd, ld)

\* What a call that returns nothing leaves in ret.
Void == [op |-> "", key |-> <<>>, ok |-> TRUE, v |-> TNil, err |-> "", env |-> <<>>,
         before |-> TNil, arg |-> TNil, loaded |-> <<>>, line |-> 0, note |-> ""]

\* What a read returned: the value found and the variable name looked up.
Return(op, key, ok, v, err, envName) ==
    [op |-> op, key |-> key, ok |-> ok, v |-> v, err |-> err, env |-> envName,
     before |-> TNil, arg |-> TNil, loaded |-> <<>>, line |-> 0, note |-> ""]

\* What a call that loads or merges returned, with the content values had
\* when the call began and the data the call was given.
Done(op, err, before, arg) ==
    [op |-> op, key |-> <<>>, ok |-> err = "", v |-> TNil, err |-> err, env |-> <<>>,
     before |-> before, arg |-> arg, loaded |-> <<>>, line |-> 0, note |-> ""]

\* What a call of WatchConfig or Close returned, and the return statement
\* of config.go it returned from.
Returned(op, err, line, note) ==
    [Void EXCEPT !.op = op, !.ok = (err = ""), !.err = err, !.line = line, !.note = note]

(***************************************************************************)
(* Watchers and callers                                                    *)
(*                                                                         *)
(* A watcher is the fsnotify.Watcher that WatchConfig creates, together    *)
(* with the done channel made for it and the listener goroutine that       *)
(* WatchConfig starts on it.                                               *)
(*   state    free (not in existence), open, closed                        *)
(*   paths    the paths added with Add                                     *)
(*   events   the events waiting on the Events channel, each a set of ops  *)
(*   errors   an error is waiting on the Errors channel                    *)
(*   pc       where the listener is: none (not started), select, reload,   *)
(*            fetch, call, exited                                          *)
(*   callback the local variable callback of the listener                  *)
(*   done     the done channel is closed                                   *)
(* and, for the event the listener took last: reload (none, ok, failed),   *)
(* invoked (how many times the callback ran for it); failed (a reload of   *)
(* this listener has failed), fresh (the watch was started by a            *)
(* WatchConfig called right after a Close returned), cbChanged             *)
(* (OnConfigChange was called since the listener took that event) and      *)
(* erred (the listener has received a watcher error).                      *)
(***************************************************************************)
Watcher == 1..MaxWatchers
Caller == 1..MaxCallers

FreeWatcher ==
    [state |-> "free", paths |-> {}, events |-> <<>>, errors |-> FALSE, pc |-> "none",
     callback |-> "nil", done |-> FALSE, reload |-> "none", invoked |-> 0,
     failed |-> FALSE, fresh |-> FALSE, cbChanged |-> FALSE, erred |-> FALSE, seen |-> 0]

\* A caller that is in no WatchConfig or Close call.
NoCall == [op |-> "", pc |-> "", w |-> 0, done |-> 0, file |-> <<>>, note |-> ""]

\* The goroutines whose calls are followed lock by lock: the callers and the
\* listener goroutine of WatchConfig.
Listener == MaxCallers + 1
Goroutine == 1..Listener

\* A goroutine in no call.  op is the call it is in and pc its place there:
\* wait (at Lock or RLock), busy (in the locked section), merge (in the merge
\* of a reload), done (at Unlock or RUnlock), closing (Close, after its
\* section) and, for the listener, off, select and call (in the callback).
\* todo and data are the keys a reload has still to merge and the map it
\* decoded, err what the section returns, cb the calls the callback has
\* still to make, and conc whether a reload was under way when a getter was
\* called; from is who made the call: a caller, the listener for an event,
\* or the callback, and v the value a getter returns.
Idle == [op |-> "", pc |-> "idle", todo |-> {}, data |-> NilV, kept |-> NilV, err |-> "",
         cb |-> <<>>, conc |-> FALSE, from |-> "", v |-> TNil]

\* config.go: the field mu of Config, a sync.RWMutex no goroutine holds.  w
\* is the goroutine that holds it for writing (0 for none), r the goroutines
\* that hold it for reading, q the goroutines blocked in Lock; g is the
\* goroutines, open whether a watcher is open, events the write events the
\* listener has not taken, and whole
\* the content of values when the lock was last released by a writer.
Unlocked ==
    [w |-> 0, r |-> {}, q |-> {}, events |-> 0, open |-> FALSE,
     whole |-> TMap("msa", EmptyMap),
     g |-> [i \in Goroutine |-> IF i = Listener THEN [Idle EXCEPT !.pc = "off"] ELSE Idle]]

\* The listener of the watcher is running.
Alive(ws, w) == ws[w].pc \notin {"none", "exited"}

\* A closed watcher whose listener is not running and that nothing refers
\* to any more is gone.
Recycle(ws, c, cl) ==
    [w \in Watcher |->
        IF /\ ws[w].state = "closed"
           /\ ~Alive(ws, w)
           /\ c.watcher # w /\ c.watcherDone # w
           /\ \A t \in Caller : cl[t].w # w /\ cl[t].done # w
        THEN FreeWatcher ELSE ws[w]]

\* fsnotify: an operation on a path reaches every open watcher the path was
\* added to.
Watching(ws, path) == {w \in Watcher : ws[w].state = "open" /\ path \in ws[w].paths}

Deliver(ws, path, ops) ==
    [w \in Watcher |->
        IF w \in Watching(ws, path) THEN [ws[w] EXCEPT !.events = Append(@, ops)] ELSE ws[w]]

\* New handing out the maps of the Config made first, as package-level maps
\* would be
New_sharedMaps(h) ==
    LET d == Make(h, MapObj("msa", EmptyMap))
        v == Make(d.h, MapObj("msa", EmptyMap))
        shared == h[1].kind # "free" /\ h[2].kind # "free"
    IN  [h |-> IF shared THEN h ELSE v.h,
         c |-> [defaults |-> IF shared THEN RefV(1) ELSE d.v,
                values |-> IF shared THEN RefV(2) ELSE v.v, envPrefix |-> Empty,
                envBindings |-> NoBindings, cfgName |-> Empty, cfgType |-> Empty,
                cfgPaths |-> << <<".">> >>, file |-> Empty, automatic |-> FALSE,
                watcher |-> 0, onChange |-> "nil", watcherDone |-> 0,
                loaders |-> defaultLoaders]]

\* config.go: New
New(h) ==
    LET d == Make(h, MapObj("msa", EmptyMap))
        v == Make(d.h, MapObj("msa", EmptyMap))
    IN  [h |-> v.h,
         c |-> [defaults |-> d.v, values |-> v.v, envPrefix |-> Empty,
                envBindings |-> NoBindings, cfgName |-> Empty, cfgType |-> Empty,
                cfgPaths |-> << <<".">> >>, file |-> Empty, automatic |-> FALSE,
                watcher |-> 0, onChange |-> "nil", watcherDone |-> 0,
                loaders |-> defaultLoaders]]

\* No second Config was made: a Config New returns always has its two maps.
NoConfig == [New(EmptyHeap).c EXCEPT !.defaults = NilV, !.values = NilV]

Init ==
    /\ heap = New(EmptyHeap).h
    /\ conf = New(EmptyHeap).c
    /\ environ = NoBindings
    /\ fs = [p \in {} |-> 0]
    /\ callerData = NilV
    /\ loaderData = NilV
    /\ ret = Void
    /\ registered = <<>>
    /\ watchers = [w \in Watcher |-> FreeWatcher]
    /\ calls = [t \in Caller |-> NoCall]
    /\ mu = Unlocked
    /\ other = NoConfig

(***************************************************************************)
(* Resolution: getEnv, get                                                 *)
(***************************************************************************)
\* os.LookupEnv
LookupEnv(name) ==
    IF name \in DOMAIN environ THEN [ok |-> TRUE, v |-> environ[name]]
    ELSE [ok |-> FALSE, v |-> Empty]

\* envName with the prefix joined without its underscore
envName_noSeparator(c, key) ==
    IF key \in DOMAIN c.envBindings THEN c.envBindings[key]
    ELSE LET env == ToUpper(ReplaceAll(key, ".", "_"))
         IN  IF c.envPrefix # Empty THEN c.envPrefix \o env ELSE env

\* envName with the prefix applied to a bound name as well
envName_prefixBound(c, key) ==
    LET env == IF key \in DOMAIN c.envBindings THEN c.envBindings[key]
               ELSE ToUpper(ReplaceAll(key, ".", "_"))
    IN  IF c.envPrefix # Empty THEN c.envPrefix \o <<"_">> \o env ELSE env

\* config.go: getEnv, the name of the variable looked up
envName(c, key) ==
    IF key \in DOMAIN c.envBindings THEN c.envBindings[key]
    ELSE LET env == ToUpper(ReplaceAll(key, ".", "_"))
         IN  IF c.envPrefix # Empty THEN c.envPrefix \o <<"_">> \o env ELSE env

getEnv(c, key) == LookupEnv(envName(c, key))

\* get with the environment consulted before values in every mode
get_envFirst(h, c, key) ==
    IF LookupEnv(envName(c, key)).ok THEN Found(StrV(LookupEnv(envName(c, key)).v))
    ELSE IF fetchValue(h, c.values, key).ok THEN fetchValue(h, c.values, key)
    ELSE fetchValue(h, c.defaults, key)

\* get without the automatic-env branch
get_noAutomatic(h, c, key) ==
    IF fetchValue(h, c.values, key).ok THEN fetchValue(h, c.values, key)
    ELSE IF LookupEnv(envName(c, key)).ok THEN Found(StrV(LookupEnv(envName(c, key)).v))
    ELSE fetchValue(h, c.defaults, key)

\* get without the environment lookup that follows a miss in values
get_noFallbackEnv(h, c, key) ==
    IF c.automatic /\ LookupEnv(envName(c, key)).ok
    THEN Found(StrV(LookupEnv(envName(c, key)).v))
    ELSE IF fetchValue(h, c.values, key).ok THEN fetchValue(h, c.values, key)
    ELSE fetchValue(h, c.defaults, key)

\* config.go: get
get(h, c, key) ==
    IF c.automatic /\ getEnv(c, key).ok THEN Found(StrV(getEnv(c, key).v))
    ELSE IF fetchValue(h, c.values, key).ok THEN fetchValue(h, c.values, key)
    ELSE IF getEnv(c, key).ok THEN Found(StrV(getEnv(c, key).v))
    ELSE fetchValue(h, c.defaults, key)

\* Whether get(key) reaches a getEnv call, and so looks a variable up.
looksUpEnv(h, c, key) == c.automatic \/ ~fetchValue(h, c.values, key).ok

(***************************************************************************)
(* Setters                                                                 *)
(***************************************************************************)
\* A setter: it changes fields of the Config and returns nothing.
Configure(c2) ==
    /\ conf' = c2
    /\ ret' = Void
    /\ UNCHANGED <<heap, environ, mu, fs, callerData, loaderData, other, registered, watchers,
                   calls>>

SetEnvPrefix(prefix) == Configure([conf EXCEPT !.envPrefix = prefix])

AutomaticEnv == Configure([conf EXCEPT !.automatic = TRUE])

BindEnv(key, env) ==
    Configure([conf EXCEPT !.envBindings =
                  [k \in (DOMAIN @) \cup {key} |-> IF k = key THEN env ELSE @[k]]])

SetConfigName(name) == Configure([conf EXCEPT !.cfgName = name])

SetConfigType(typ) == Configure([conf EXCEPT !.cfgType = ToLower(typ)])

AddConfigPath(path) == Configure([conf EXCEPT !.cfgPaths = Append(@, path)])

SetConfigFile(file) == Configure([conf EXCEPT !.file = file])

\* SetDefault stores the caller's value as it is; the caller builds it from
\* the tree and keeps no reference to it.
SetDefault(key, tree) ==
    LET b == Build(heap, tree)
        h2 == SetKey(b.h, conf.defaults.a, StrV(key), b.v)
    IN  /\ Cardinality(FreeAddrs(heap)) >= TreeSize(tree)
        /\ Finish(h2, conf, callerData, loaderData)
        /\ ret' = Void
        /\ UNCHANGED <<environ, mu, fs, registered, watchers, calls>>

\* os.Setenv and os.Unsetenv, by the program or around it
Setenv(name, val) ==
    /\ environ' = [n \in (DOMAIN environ) \cup {name} |-> IF n = name THEN val ELSE environ[n]]
    /\ ret' = Void
    /\ UNCHANGED <<heap, conf, fs, mu, callerData, loaderData, other, registered, watchers, calls>>

Unsetenv(name) ==
    /\ name \in DOMAIN environ
    /\ environ' = [n \in (DOMAIN environ) \ {name} |-> environ[n]]
    /\ ret' = Void
    /\ UNCHANGED <<heap, conf, fs, mu, callerData, loaderData, other, registered, watchers, calls>>

(***************************************************************************)
(* MergeConfigMap                                                          *)
(***************************************************************************)
\* config.go: mergeConfigMapLocked.  The result is the heap and the Config.
mergeConfigMapLocked(h, c, data) ==
    IF data.t = "nil" THEN [h |-> h, c |-> c]
    ELSE IF c.values.t = "nil" THEN [h |-> h, c |-> [c EXCEPT !.values = data]]
    ELSE [h |-> mergeMaps(h, c.values, data).h, c |-> c]

\* config.go: MergeConfigMap
mergeConfigMap(h, c, data) ==
    IF data.t = "nil" THEN [h |-> h, c |-> c]
    ELSE LET cl == cloneMap(h, data)
             normalized == normalizeLoadedMap(cl.h, cl.v)
         IN  IF normalized.v.t = "nil" THEN [h |-> h, c |-> c]
             ELSE mergeConfigMapLocked(normalized.h, c, normalized.v)

\* The caller builds the map the tree describes, passes it, and keeps it.
MergeConfigMap(tree) ==
    LET b == Build(heap, tree)
        r == mergeConfigMap(b.h, conf, b.v)
    IN  /\ Cardinality(FreeAddrs(heap)) >= 3 * TreeSize(tree)
        /\ Finish(r.h, r.c, b.v, loaderData)
        /\ ret' = Done("MergeConfigMap", "", Deep(heap, conf.values), tree)
        /\ UNCHANGED <<environ, mu, fs, registered, watchers, calls>>

\* The caller changes the map it passed, or a map or slice inside it:
\* m["z"] = "m" on a map, s[0] = "m" on a []any or []string.
CallerMutate(a) ==
    /\ a \in Reach(heap, callerData)
    /\ \/ /\ heap[a].kind \in MapKinds
          /\ heap' = SetKey(heap, a, StrV(<<"z">>), StrV(<<"m">>))
       \/ /\ heap[a].kind \in {"sa", "ss"}
          /\ Len(heap[a].e) > 0
          /\ heap' = SetElem(heap, a, 1, StrV(<<"m">>))
    /\ ret' = Done("CallerMutate", "", Deep(heap, conf.values), TNil)
    /\ UNCHANGED <<conf, environ, mu, fs, callerData, loaderData, other, registered, watchers,
                   calls>>

(***************************************************************************)
(* Loaders and decodeConfig                                                *)
(*                                                                         *)
(* The bytes of a document are modelled by what they decode to: the syntax *)
(* they are written in and the Go value a loader of that syntax builds     *)
(* from them.  A loader of another syntax fails on them.                   *)
(***************************************************************************)
BadSyntax == "bad"

\* The syntax each loader parses.  KeepLoader is a custom Loader (one that
\* RegisterLoader installs) which keeps a reference to the map it returns.
\* fakeLoader is the custom Loader of the tests: it parses nothing and
\* returns the text it was given under the key raw.
SyntaxOf(loader) ==
    CASE loader = "JSONLoader" -> "json"
      [] loader = "YAMLLoader" -> "yaml"
      [] loader = "TOMLLoader" -> "toml"
      [] loader = "INILoader" -> "ini"
      [] loader = "XMLLoader" -> "xml"
      [] OTHER -> "keep"

\* Loader.Load: a fresh value built from the document, or an error
Load(h, loader, doc) ==
    IF loader = "fakeLoader"
    THEN LET raw == TMap("msa", [x \in {StrV(<<"r", "a", "w">>)} |-> TStr(doc.text)])
         IN  [h |-> Build(h, raw).h, v |-> Build(h, raw).v, err |-> ""]
    ELSE IF doc.syntax # SyntaxOf(loader)
    THEN [h |-> h, v |-> NilV, err |-> "decode error"]
    ELSE [h |-> Build(h, doc.tree).h, v |-> Build(h, doc.tree).v, err |-> ""]

\* decodeConfig with the format looked up as it is written
decodeConfig_noLower(h, c, doc, format) ==
    LET f == TrimDot(format)
    IN  IF f = Empty \/ f \notin DOMAIN c.loaders
        THEN [h |-> h, v |-> NilV, err |-> "unsupported config file type", kept |-> NilV,
              loaded |-> <<>>]
        ELSE LET l == Load(h, c.loaders[f], doc)
                 n == normalizeLoadedMap(l.h, l.v)
             IN  IF l.err # ""
                 THEN [h |-> h, v |-> NilV, err |-> l.err, kept |-> NilV,
                       loaded |-> <<c.loaders[f]>>]
                 ELSE [h |-> n.h, v |-> n.v, err |-> "",
                       kept |-> IF c.loaders[f] = "KeepLoader" THEN l.v ELSE NilV,
                       loaded |-> <<c.loaders[f]>>]

\* config.go: decodeConfig.  kept is the map a KeepLoader returned, loaded
\* the loaders whose Load the call invoked, in order.
decodeConfig(h, c, doc, format) ==
    LET f == ToLower(TrimDot(format))
    IN  IF f = Empty \/ f \notin DOMAIN c.loaders
        THEN [h |-> h, v |-> NilV, err |-> "unsupported config file type", kept |-> NilV,
              loaded |-> <<>>]
        ELSE LET l == Load(h, c.loaders[f], doc)
                 n == normalizeLoadedMap(l.h, l.v)
             IN  IF l.err # ""
                 THEN [h |-> h, v |-> NilV, err |-> l.err, kept |-> NilV,
                       loaded |-> <<c.loaders[f]>>]
                 ELSE [h |-> n.h, v |-> n.v, err |-> "",
                       kept |-> IF c.loaders[f] = "KeepLoader" THEN l.v ELSE NilV,
                       loaded |-> <<c.loaders[f]>>]

\* What RegisterLoader leaves in ret: the extension and the loader passed.
Registered(ext, loader) == [Void EXCEPT !.op = "RegisterLoader", !.key = ext, !.note = loader]

\* RegisterLoader with the entry stored under the extension as passed
RegisterLoader_noNormalize(ext, loader) ==
    /\ Len(registered) < MaxRegs
    /\ conf' = IF ext = Empty \/ loader = "nil" THEN conf
               ELSE [conf EXCEPT !.loaders =
                        [f \in (DOMAIN @) \cup {ext} |-> IF f = ext THEN loader ELSE @[f]]]
    /\ registered' = Append(registered, <<ext, loader>>)
    /\ ret' = Registered(ext, loader)
    /\ UNCHANGED <<heap, environ, mu, fs, callerData, loaderData, other, watchers, calls>>

\* RegisterLoader with an entry already present left as it is
RegisterLoader_keepFirst(ext, loader) ==
    LET normalized == ToLower(TrimDot(ext))
    IN  /\ Len(registered) < MaxRegs
        /\ conf' = IF normalized = Empty \/ loader = "nil" \/ normalized \in DOMAIN conf.loaders
                   THEN conf
                   ELSE [conf EXCEPT !.loaders =
                            [f \in (DOMAIN @) \cup {normalized} |->
                                IF f = normalized THEN loader ELSE @[f]]]
        /\ registered' = Append(registered, <<ext, loader>>)
        /\ ret' = Registered(ext, loader)
        /\ UNCHANGED <<heap, environ, mu, fs, callerData, loaderData, other, watchers, calls>>

\* config.go: RegisterLoader
RegisterLoader(ext, loader) ==
    LET normalized == ToLower(TrimDot(ext))
    IN  /\ Len(registered) < MaxRegs
        /\ conf' = IF normalized = Empty \/ loader = "nil" THEN conf
                   ELSE [conf EXCEPT !.loaders =
                            [f \in (DOMAIN @) \cup {normalized} |->
                                IF f = normalized THEN loader ELSE @[f]]]
        /\ registered' = Append(registered, <<ext, loader>>)
        /\ ret' = Registered(ext, loader)
        /\ UNCHANGED <<heap, environ, mu, fs, callerData, loaderData, other, watchers, calls>>

\* fetchValue applied to values or to defaults, as get applies it.
Fetch(layer, key) ==
    LET data == IF layer = "values" THEN conf.values ELSE conf.defaults
        r == fetchValue(heap, data, key)
    IN  /\ ret' = Return(IF layer = "values" THEN "fetchValue(values)" ELSE "fetchValue(defaults)",
                         key, r.ok, Deep(heap, r.v), "", Empty)
        /\ UNCHANGED <<heap, conf, environ, mu, fs, callerData, loaderData, other, registered,
                       watchers, calls>>

(***************************************************************************)
(* Inputs                                                                  *)
(***************************************************************************)
sU == <<"u">>
sV == <<"v">>
eAX  == <<"A", "_", "X">>
ePAX == <<"P", "_", "A", "_", "X">>
eX   == <<"X">>

Entry(k, tree) == [x \in {StrV(k)} |-> tree]
Entries2(k1, t1, k2, t2) == [x \in {StrV(k1), StrV(k2)} |-> IF x = StrV(k1) THEN t1 ELSE t2]

T_ax1 == TMap("msa", Entry(kA, TMap("msa", Entry(<<"x">>, TInt(1)))))
T_ay2 == TMap("msa", Entry(kA, TMap("msa", Entry(<<"y">>, TInt(2)))))
T_as  == TMap("msa", Entry(kA, TStr(<<"s">>)))
T_hosts == TMap("msa", Entries2(kA, TMap("msa", Entry(<<"h">>, TSeq("sa", <<TStr(sU), TStr(sV)>>))),
                                kK, TInt(1)))
T_k3  == TMap("msa", Entry(kK, TInt(3)))
T_dotted == TMap("msa", Entry(kAX, TInt(5)))

T_axp == TMap("msa", Entry(kA, TMap("msa", Entry(<<"x">>, TMap("msa", Entry(<<"p">>, TInt(1)))))))
T_axq == TMap("msa", Entry(kA, TMap("msa", Entry(<<"x">>, TMap("msa", Entry(<<"q">>, TInt(2)))))))
T_kr  == TMap("msa", Entries2(kK, TInt(1), <<"r">>, TInt(2)))
T_ahw == TMap("msa", Entry(kA, TMap("msa", Entry(<<"h">>, TSeq("sa", <<TStr(<<"w">>)>>)))))
T_mss == TMap("msa", Entry(kA, TMap("mss", Entry(<<"x">>, TStr(sU)))))
T_maa == TMap("msa", Entry(kA, TMap("maa", [x \in {IntV(1), StrV(<<"y">>)} |->
                                               IF x = IntV(1) THEN TStr(sU) ELSE TInt(2)])))
T_mia == TMap("msa", Entry(kA, TMap("mia", [x \in {IntV(1)} |-> TStr(sU)])))
T_smaa == TMap("msa", Entry(<<"l">>, TSeq("smaa", <<TMap("maa", [x \in {IntV(1)} |-> TInt(2)])>>)))
T_keep == TMap("msa", Entries2(kA, TMap("msa", Entry(<<"x">>, TInt(1))),
                               <<"l">>, TSeq("smsa", <<TMap("msa", Entry(<<"y">>, TInt(2)))>>)))

\* A document: the syntax it is written in, the value a loader of that
\* syntax builds from it, and a mark standing for its text.
DocOf(syntax, tree, text) == [syntax |-> syntax, tree |-> tree, text |-> text]

\* The documents files and readers hold.
Docs == <<DocOf("json", T_kr, <<"1">>), DocOf("json", T_k3, <<"2">>),
          DocOf(BadSyntax, TNil, <<"3">>), DocOf("keep", T_keep, <<"4">>),
          DocOf("yaml", T_maa, <<"5">>), DocOf("json", TNil, <<"6">>)>>

pJ == <<"a", ".", "j", "s", "o", "n">>
pK == <<"b", ".", "k">>

(***************************************************************************)
(* ReadInConfig, ReadConfig                                                *)
(***************************************************************************)
\* filepath.Join(p, name) for a directory p that is "", "." or a plain name
Join(dir, name) ==
    IF dir = Empty \/ dir = <<".">> THEN name ELSE dir \o <<"/">> \o name

\* filepath.Ext: the suffix from the last dot of the last path element
Ext(path) ==
    LET dots == {i \in 1..Len(path) :
                    path[i] = "." /\ \A j \in i..Len(path) : path[j] # "/"}
    IN  IF dots = {} THEN Empty
        ELSE SubSeq(path, CHOOSE i \in dots : \A j \in dots : j <= i, Len(path))

\* os.Stat(name) succeeds
Exists(name) == name \in DOMAIN fs /\ fs[name] # 0

\* The candidate file names of the search, in cfgPaths order.
Candidate(c, i) ==
    IF c.cfgType # Empty
    THEN Join(c.cfgPaths[i], c.cfgName) \o <<".">> \o c.cfgType
    ELSE Join(c.cfgPaths[i], c.cfgName)

\* config.go: readInConfigLocked, lines 147-164: the file to read
locateFile(c) ==
    IF c.file # Empty THEN c.file
    ELSE IF c.cfgName = Empty THEN Empty
    ELSE LET hits == {i \in 1..Len(c.cfgPaths) : Exists(Candidate(c, i))}
         IN  IF hits = {} THEN Empty
             ELSE Candidate(c, CHOOSE i \in hits : \A j \in hits : i <= j)

\* readInConfigLocked without the reset of values before the merge
readInConfigLocked_noReset(h, c) ==
    IF c.file = Empty /\ c.cfgName = Empty
    THEN [h |-> h, c |-> c, err |-> "", kept |-> NilV, loaded |-> <<>>]
    ELSE IF locateFile(c) = Empty
    THEN [h |-> h, c |-> c, err |-> "file does not exist", kept |-> NilV, loaded |-> <<>>]
    ELSE LET c1 == [c EXCEPT !.file = locateFile(c)]
         IN  IF ~Exists(c1.file)
             THEN [h |-> h, c |-> c1, err |-> "file does not exist", kept |-> NilV, loaded |-> <<>>]
             ELSE LET d == decodeConfig(h, c1, Docs[fs[c1.file]], TrimDot(ToLower(Ext(c1.file))))
                      r == mergeConfigMapLocked(d.h, c1, d.v)
                  IN  IF d.err # ""
                      THEN [h |-> h, c |-> c1, err |-> d.err, kept |-> NilV, loaded |-> d.loaded]
                      ELSE [h |-> r.h, c |-> r.c, err |-> "", kept |-> d.kept, loaded |-> d.loaded]

\* readInConfigLocked with values reset before the file is decoded
readInConfigLocked_resetFirst(h, c) ==
    IF c.file = Empty /\ c.cfgName = Empty
    THEN [h |-> h, c |-> c, err |-> "", kept |-> NilV, loaded |-> <<>>]
    ELSE IF locateFile(c) = Empty
    THEN [h |-> h, c |-> c, err |-> "file does not exist", kept |-> NilV, loaded |-> <<>>]
    ELSE LET c1 == [c EXCEPT !.file = locateFile(c)]
         IN  IF ~Exists(c1.file)
             THEN [h |-> h, c |-> c1, err |-> "file does not exist", kept |-> NilV, loaded |-> <<>>]
             ELSE LET fresh == Make(h, MapObj("msa", EmptyMap))
                      c2 == [c1 EXCEPT !.values = fresh.v]
                      d == decodeConfig(fresh.h, c2, Docs[fs[c1.file]], TrimDot(ToLower(Ext(c1.file))))
                      r == mergeConfigMapLocked(d.h, c2, d.v)
                  IN  IF d.err # ""
                      THEN [h |-> fresh.h, c |-> c2, err |-> d.err, kept |-> NilV, loaded |-> d.loaded]
                      ELSE [h |-> r.h, c |-> r.c, err |-> "", kept |-> d.kept, loaded |-> d.loaded]

\* readInConfigLocked resetting values also when neither a file nor a name
\* is set
readInConfigLocked_resetUnnamed(h, c) ==
    IF c.file = Empty /\ c.cfgName = Empty
    THEN LET fresh == Make(h, MapObj("msa", EmptyMap))
         IN  [h |-> fresh.h, c |-> [c EXCEPT !.values = fresh.v], err |-> "", kept |-> NilV,
              loaded |-> <<>>]
    ELSE IF locateFile(c) = Empty
    THEN [h |-> h, c |-> c, err |-> "file does not exist", kept |-> NilV, loaded |-> <<>>]
    ELSE LET c1 == [c EXCEPT !.file = locateFile(c)]
         IN  IF ~Exists(c1.file)
             THEN [h |-> h, c |-> c1, err |-> "file does not exist", kept |-> NilV, loaded |-> <<>>]
             ELSE LET d == decodeConfig(h, c1, Docs[fs[c1.file]], TrimDot(ToLower(Ext(c1.file))))
                      fresh == Make(d.h, MapObj("msa", EmptyMap))
                      r == mergeConfigMapLocked(fresh.h, [c1 EXCEPT !.values = fresh.v], d.v)
                  IN  IF d.err # ""
                      THEN [h |-> h, c |-> c1, err |-> d.err, kept |-> NilV, loaded |-> d.loaded]
                      ELSE [h |-> r.h, c |-> r.c, err |-> "", kept |-> d.kept, loaded |-> d.loaded]

\* config.go: readInConfigLocked
readInConfigLocked(h, c) ==
    IF c.file = Empty /\ c.cfgName = Empty
    THEN [h |-> h, c |-> c, err |-> "", kept |-> NilV, loaded |-> <<>>]
    ELSE IF locateFile(c) = Empty
    THEN [h |-> h, c |-> c, err |-> "file does not exist", kept |-> NilV, loaded |-> <<>>]
    ELSE LET c1 == [c EXCEPT !.file = locateFile(c)]
         IN  IF ~Exists(c1.file)
             THEN [h |-> h, c |-> c1, err |-> "file does not exist", kept |-> NilV, loaded |-> <<>>]
             ELSE LET d == decodeConfig(h, c1, Docs[fs[c1.file]], TrimDot(ToLower(Ext(c1.file))))
                      fresh == Make(d.h, MapObj("msa", EmptyMap))
                      r == mergeConfigMapLocked(fresh.h, [c1 EXCEPT !.values = fresh.v], d.v)
                  IN  IF d.err # ""
                      THEN [h |-> h, c |-> c1, err |-> d.err, kept |-> NilV, loaded |-> d.loaded]
                      ELSE [h |-> r.h, c |-> r.c, err |-> "", kept |-> d.kept, loaded |-> d.loaded]

\* config.go: ReadConfig, of a reader that yields the document or fails
readConfig(h, c, doc, readFails) ==
    IF c.cfgType = Empty
    THEN [h |-> h, c |-> c, err |-> "config type not set", kept |-> NilV, loaded |-> <<>>]
    ELSE IF readFails
    THEN [h |-> h, c |-> c, err |-> "read error", kept |-> NilV, loaded |-> <<>>]
    ELSE LET d == decodeConfig(h, c, doc, c.cfgType)
             r == mergeConfigMapLocked(d.h, c, d.v)
         IN  IF d.err # ""
             THEN [h |-> h, c |-> c, err |-> d.err, kept |-> NilV, loaded |-> d.loaded]
             ELSE [h |-> r.h, c |-> r.c, err |-> "", kept |-> d.kept, loaded |-> d.loaded]

\* The most objects a decode of the document allocates on top of its merge.
DocRoom(doc) == 2 * TreeSize(doc.tree) + 1

\* A loader that returned a map keeps the latest one it returned.
Kept(r) == IF r.kept.t = "nil" THEN loaderData ELSE r.kept

\* config.go: ReadInConfig, line 110: the call returns what
\* readInConfigLocked returned, r
ReadInConfigReturn(r) ==
    /\ \A n \in DOMAIN Docs : Cardinality(FreeAddrs(heap)) >= DocRoom(Docs[n])
    /\ Finish(r.h, r.c, callerData, Kept(r))
    /\ ret' = [Done("ReadInConfig", r.err, Deep(heap, conf.values), TNil)
                  EXCEPT !.loaded = r.loaded]
    /\ UNCHANGED <<environ, mu, fs, registered, watchers, calls>>

\* config.go: ReadInConfig
ReadInConfig == ReadInConfigReturn(readInConfigLocked(heap, conf))

\* config.go: ReadConfig, lines 117-129: the call returns r
ReadConfigReturn(doc, r) ==
    /\ Cardinality(FreeAddrs(heap)) >= DocRoom(doc)
    /\ Finish(r.h, r.c, callerData, Kept(r))
    /\ ret' = [Done("ReadConfig", r.err, Deep(heap, conf.values), doc.tree)
                  EXCEPT !.loaded = r.loaded]
    /\ UNCHANGED <<environ, mu, fs, registered, watchers, calls>>

\* config.go: ReadConfig
ReadConfig(doc, readFails) == ReadConfigReturn(doc, readConfig(heap, conf, doc, readFails))

\* decodeConfig applied to a document and a format, as ReadConfig and
\* readInConfigLocked apply it.  The result is handed back and dropped.
Decode(doc, format) ==
    LET d == decodeConfig(heap, conf, doc, format)
    IN  /\ Cardinality(FreeAddrs(heap)) >= DocRoom(doc)
        /\ ret' = [Void EXCEPT !.op = "decodeConfig", !.key = format, !.ok = (d.err = ""),
                                !.err = d.err, !.v = Deep(d.h, d.v), !.arg = doc.tree,
                                !.note = doc.syntax, !.env = doc.text, !.loaded = d.loaded]
        /\ UNCHANGED <<heap, conf, environ, mu, fs, callerData, loaderData, other, registered,
                       watchers, calls>>

\* os.WriteFile: the file at path now holds document n of the documents
WriteFile(path, n) ==
    /\ \A w \in Watching(watchers, path) : Len(watchers[w].events) < MaxEvents
    /\ fs' = [q \in (DOMAIN fs) \cup {path} |-> IF q = path THEN n ELSE fs[q]]
    /\ watchers' = Deliver(watchers, path, {"Write"})
    /\ ret' = Void
    /\ UNCHANGED <<heap, conf, environ, mu, callerData, loaderData, other, registered, calls>>

\* The loader changes the map it returned, or a map or slice inside it, as
\* when it reuses the map for its next document.
LoaderMutate(a) ==
    /\ a \in Reach(heap, loaderData)
    /\ \/ /\ heap[a].kind \in MapKinds
          /\ heap' = SetKey(heap, a, StrV(<<"z">>), StrV(<<"m">>))
       \/ /\ heap[a].kind \in {"sa", "ss"}
          /\ Len(heap[a].e) > 0
          /\ heap' = SetElem(heap, a, 1, StrV(<<"m">>))
    /\ ret' = Done("LoaderMutate", "", Deep(heap, conf.values), TNil)
    /\ UNCHANGED <<conf, environ, mu, fs, callerData, loaderData, other, registered, watchers,
                   calls>>

(***************************************************************************)
(* Reads                                                                   *)
(***************************************************************************)
\* A read of one key through get, as every typed getter starts.  The
\* result records the value found and the variable name get looked up.
Get(key) ==
    /\ ret' = Return("get", key, get(heap, conf, key).ok,
                     Deep(heap, get(heap, conf, key).v), "",
                     IF looksUpEnv(heap, conf, key) THEN envName(conf, key) ELSE Empty)
    /\ UNCHANGED <<heap, conf, environ, mu, fs, callerData, loaderData, other, registered,
                   watchers, calls>>

(***************************************************************************)
(* Typed getters                                                           *)
(*                                                                         *)
(* A getter resolves the key through get and converts the value found by   *)
(* a type switch.  The conversions read the value and build a new result,  *)
(* so they are given the content of the value found, as a tree.            *)
(***************************************************************************)
\* The characters of the model's strings in byte order.
Alphabet ==
    <<" ", "+", ",", "-", ".", "0", "1", "2", "3", "4", "5", "6", "7", "8", "9",
      ":", "<", ">", "A", "B", "C", "D", "E", "F", "H", "I", "J", "K", "L", "M",
      "N", "O", "P", "R", "S", "T", "U", "X", "Y", "[", "]", "_", "a", "b", "c",
      "d", "e", "f", "h", "i", "j", "k", "l", "m", "n", "o", "p", "q", "r", "s",
      "t", "u", "v", "w", "x", "y", "z">>

CharRank(c) == CHOOSE i \in 1..Len(Alphabet) : Alphabet[i] = c

\* a < b for two Go strings
RECURSIVE LessStr(_, _)
LessStr(a, b) ==
    IF b = <<>> THEN FALSE
    ELSE IF a = <<>> THEN TRUE
    ELSE IF Head(a) = Head(b) THEN LessStr(Tail(a), Tail(b))
    ELSE CharRank(Head(a)) < CharRank(Head(b))

\* The order fmt prints the keys of a map in: integers by value, strings by
\* bytes.  The maps formatted here have keys of one type.
KeyLess(a, b) == IF a.t = "int" /\ b.t = "int" THEN a.i < b.i ELSE LessStr(Sprint(a), Sprint(b))

RECURSIVE SortedKeys(_)
SortedKeys(ks) ==
    IF ks = {} THEN <<>>
    ELSE LET k == CHOOSE x \in ks : \A y \in ks \ {x} : KeyLess(x, y)
         IN  <<k>> \o SortedKeys(ks \ {k})

\* strings.Join
RECURSIVE JoinWith(_, _)
JoinWith(parts, sep) ==
    IF parts = <<>> THEN <<>>
    ELSE IF Len(parts) = 1 THEN parts[1]
    ELSE parts[1] \o sep \o JoinWith(Tail(parts), sep)

\* fmt.Sprintf("%v", v): nil prints as <nil>, a map with its keys sorted,
\* a float64 in its shortest decimal form, which is the text it is held as.
RECURSIVE FormatV(_)
FormatV(tr) ==
    IF tr.t = "string" THEN tr.s
    ELSE IF tr.t \in {"int", "int64"} THEN Itoa(tr.i)
    ELSE IF tr.t = "float64" THEN tr.s
    ELSE IF tr.t = "bool" THEN
        IF tr.i = 1 THEN <<"t", "r", "u", "e">> ELSE <<"f", "a", "l", "s", "e">>
    ELSE IF tr.t \in MapKinds THEN
        LET ks == SortedKeys(DOMAIN tr.m)
        IN  <<"m", "a", "p", "[">>
            \o JoinWith([i \in 1..Len(ks) |-> Sprint(ks[i]) \o <<":">> \o FormatV(tr.m[ks[i]])],
                        <<" ">>)
            \o <<"]">>
    ELSE IF tr.t \in SeqKinds THEN
        <<"[">> \o JoinWith([i \in 1..Len(tr.e) |-> FormatV(tr.e[i])], <<" ">>) \o <<"]">>
    ELSE <<"<", "n", "i", "l", ">">>

\* config.go: stringify
stringify(tr) == IF tr.t = "string" THEN tr.s ELSE FormatV(tr)

\* strings.TrimSpace
RECURSIVE TrimLeft(_)
TrimLeft(s) == IF s # <<>> /\ Head(s) = " " THEN TrimLeft(Tail(s)) ELSE s

RECURSIVE TrimRight(_)
TrimRight(s) ==
    IF s # <<>> /\ s[Len(s)] = " " THEN TrimRight(SubSeq(s, 1, Len(s) - 1)) ELSE s

TrimSpace(s) == TrimRight(TrimLeft(s))

\* config.go: toStringSlice; a nil result is the tree of nil
toStringSlice(tr) ==
    IF tr.t = "ss" THEN TSeq("ss", tr.e)
    ELSE IF tr.t = "sa" THEN TSeq("ss", [i \in 1..Len(tr.e) |-> TStr(stringify(tr.e[i]))])
    ELSE IF tr.t = "string" THEN
        IF tr.s = <<>> THEN TSeq("ss", <<>>)
        ELSE LET parts == Split(tr.s, ",")
             IN  TSeq("ss", [i \in 1..Len(parts) |-> TStr(TrimSpace(parts[i]))])
    ELSE TNil

\* strconv.ParseBool
TrueTexts ==
    {<<"1">>, <<"t">>, <<"T">>, <<"T", "R", "U", "E">>, <<"t", "r", "u", "e">>,
     <<"T", "r", "u", "e">>}
FalseTexts ==
    {<<"0">>, <<"f">>, <<"F">>, <<"F", "A", "L", "S", "E">>, <<"f", "a", "l", "s", "e">>,
     <<"F", "a", "l", "s", "e">>}

ParseBool(s) == [ok |-> s \in TrueTexts \cup FalseTexts, b |-> s \in TrueTexts]

\* The largest int and the smallest, which are beyond the integers of the
\* model: an int result that is one of them is held as its decimal text.
MaxIntText ==
    <<"9", "2", "2", "3", "3", "7", "2", "0", "3", "6", "8", "5", "4", "7", "7", "5",
      "8", "0", "7">>
MinIntText ==
    <<"-", "9", "2", "2", "3", "3", "7", "2", "0", "3", "6", "8", "5", "4", "7", "7",
      "5", "8", "0", "8">>
TIntOver(sign) == [TInt(0) EXCEPT !.s = IF sign < 0 THEN MinIntText ELSE MaxIntText]

\* A float64 is held as the text %v prints it with: an optional "-", the
\* integer digits, and a "." with the fraction digits when there are any.
IsDigits(s) == \A i \in 1..Len(s) : s[i] \in DigitChars
Signed(s) == Len(s) > 0 /\ s[1] \in {"+", "-"}
Unsigned(s) == IF Signed(s) THEN Tail(s) ELSE s
Negative(s) == Len(s) > 0 /\ s[1] = "-"

RECURSIVE TrimZerosRight(_)
TrimZerosRight(s) ==
    IF s # <<>> /\ s[Len(s)] = "0" THEN TrimZerosRight(SubSeq(s, 1, Len(s) - 1)) ELSE s

\* Whether s is a decimal number: digits with at most one ".", and at least
\* one digit.
IsDecimal(s) ==
    LET parts == Split(Unsigned(s), ".")
    IN  /\ Len(parts) <= 2
        /\ \A i \in 1..Len(parts) : IsDigits(parts[i])
        /\ \E i \in 1..Len(parts) : parts[i] # <<>>

\* The float64 a decimal number denotes.
DecimalFloat(s) ==
    LET parts == Split(Unsigned(s), ".")
        whole == IF parts[1] = <<>> THEN <<"0">> ELSE TrimZeros(parts[1])
        frac  == IF Len(parts) = 2 THEN TrimZerosRight(parts[2]) ELSE <<>>
    IN  (IF Negative(s) THEN <<"-">> ELSE <<>>) \o whole
        \o (IF frac = <<>> THEN <<>> ELSE <<".">> \o frac)

FloatIsZero(f) == \A i \in 1..Len(f) : f[i] \in {"0", ".", "-"}

\* int(f) for a float64 within the range of int: the fraction is dropped.
FloatToInt(f) ==
    LET whole == DigitsVal(Split(Unsigned(f), ".")[1], 0)
    IN  IF Negative(f) THEN 0 - whole ELSE whole

PosInf == <<"+", "I", "n", "f">>
NegInf == <<"-", "I", "n", "f">>

\* strconv.ParseFloat(s, 64) for the forms the model's strings take: a
\* decimal number, and digits, "e", digits.  A number with a nonzero integer
\* mantissa and an exponent of 309 or more is out of range: ParseFloat then
\* returns an error together with the infinity of that sign.  With a smaller
\* exponent the result is the float the text denotes, held as that text.
ParseFloat(s) ==
    LET parts == Split(Unsigned(s), "e")
    IN  IF IsDecimal(s) THEN [ok |-> TRUE, f |-> DecimalFloat(s)]
        ELSE IF /\ Len(parts) = 2
                /\ parts[1] # <<>> /\ IsDigits(parts[1])
                /\ parts[2] # <<>> /\ IsDigits(parts[2]) /\ Len(parts[2]) <= 4
        THEN IF DigitsVal(parts[1], 0) = 0
             THEN [ok |-> TRUE, f |-> IF Negative(s) THEN <<"-", "0">> ELSE <<"0">>]
             ELSE IF DigitsVal(parts[2], 0) >= 309
             THEN [ok |-> FALSE, f |-> IF Negative(s) THEN NegInf ELSE PosInf]
             ELSE [ok |-> TRUE, f |-> s]
        ELSE [ok |-> FALSE, f |-> <<"0">>]

\* The nanoseconds of a unit of time.ParseDuration.
UnitNanos(u) ==
    CASE u = <<"n", "s">> -> 1
      [] u = <<"u", "s">> -> 1000
      [] u = <<"m", "s">> -> 1000000
      [] u = <<"s">> -> 1000000000
      [] OTHER -> 0

RECURSIVE LeadingDigits(_)
LeadingDigits(s) ==
    IF s # <<>> /\ Head(s) \in DigitChars THEN <<Head(s)>> \o LeadingDigits(Tail(s)) ELSE <<>>

\* time.ParseDuration for the forms the model's strings take: "0", and
\* digits followed by one of the units ns, us, ms, s.  Every other string
\* of the model is one ParseDuration rejects.
ParseDuration(s) ==
    LET digits == LeadingDigits(Unsigned(s))
        unit   == SubSeq(Unsigned(s), Len(digits) + 1, Len(Unsigned(s)))
        nanos  == DigitsVal(digits, 0) * UnitNanos(unit)
    IN  IF Unsigned(s) = <<"0">> THEN [ok |-> TRUE, d |-> 0]
        ELSE IF digits # <<>> /\ UnitNanos(unit) > 0
        THEN [ok |-> TRUE, d |-> IF Negative(s) THEN 0 - nanos ELSE nanos]
        ELSE [ok |-> FALSE, d |-> 0]

TDuration(d) == [TInt(d) EXCEPT !.t = "duration"]

\* for k, item := range val { res[fmt.Sprint(k)] = item }
RECURSIVE SprintKeys(_, _, _)
SprintKeys(m, ks, res) ==
    IF ks = {} THEN res
    ELSE LET k == FirstKey(ks)
         IN  SprintKeys(m, ks \ {k}, MapPut(res, StrV(Sprint(k)), m[k]))

\* The content of the two layers the store holds, values and defaults.
Layers(h, c) == TSeq("sa", <<Deep(h, c.values), Deep(h, c.defaults)>>)

\* The value get found for a key, with its content.
Resolved(h, c, key) ==
    [ok |-> get(h, c, key).ok, v |-> get(h, c, key).v, tr |-> Deep(h, get(h, c, key).v)]

\* config.go: GetString
AsString(f) == IF f.ok THEN TStr(stringify(f.tr)) ELSE TStr(<<>>)

\* config.go: GetInt
AsInt(f) ==
    IF f.ok /\ f.tr.t \in {"int", "int64"} THEN TInt(f.tr.i)
    ELSE IF f.ok /\ f.tr.t = "float64" THEN TInt(FloatToInt(f.tr.s))
    ELSE IF f.ok /\ f.tr.t = "string" THEN
        IF Atoi(f.tr.s).over # 0 THEN TIntOver(Atoi(f.tr.s).over) ELSE TInt(Atoi(f.tr.s).n)
    ELSE TInt(0)

\* config.go: GetBool
AsBool(f) ==
    IF f.ok /\ f.tr.t = "bool" THEN TBool(f.tr.i = 1)
    ELSE IF f.ok /\ f.tr.t = "string" THEN TBool(ParseBool(f.tr.s).b)
    ELSE IF f.ok /\ f.tr.t = "int" THEN TBool(f.tr.i # 0)
    ELSE IF f.ok /\ f.tr.t = "float64" THEN TBool(~FloatIsZero(f.tr.s))
    ELSE TBool(FALSE)

\* config.go: GetFloat64
AsFloat64(f) ==
    IF f.ok /\ f.tr.t = "float64" THEN TFloat(f.tr.s)
    ELSE IF f.ok /\ f.tr.t \in {"int", "int64"} THEN TFloat(Itoa(f.tr.i))
    ELSE IF f.ok /\ f.tr.t = "string" THEN TFloat(ParseFloat(f.tr.s).f)
    ELSE TFloat(<<"0">>)

\* config.go: GetDuration; no time.Duration is stored in the model
AsDuration(f) ==
    IF f.ok /\ f.tr.t \in {"int", "int64"} THEN TDuration(f.tr.i)
    ELSE IF f.ok /\ f.tr.t = "float64" THEN TDuration(FloatToInt(f.tr.s))
    ELSE IF f.ok /\ f.tr.t = "string" /\ ParseDuration(f.tr.s).ok
    THEN TDuration(ParseDuration(f.tr.s).d)
    ELSE TDuration(0)

\* config.go: GetStringSlice
AsStringSlice(f) ==
    IF f.ok /\ toStringSlice(f.tr) # TNil THEN toStringSlice(f.tr) ELSE TSeq("ss", <<>>)

\* One element of a []any as GetIntSlice converts it; ok is false where the
\* getter gives the whole slice up.
IntItem(tr) ==
    IF tr.t \in {"int", "int64"} THEN [ok |-> TRUE, v |-> TInt(tr.i)]
    ELSE IF tr.t = "float64" THEN [ok |-> TRUE, v |-> TInt(FloatToInt(tr.s))]
    ELSE IF tr.t = "string" THEN [ok |-> Atoi(tr.s).ok, v |-> TInt(Atoi(tr.s).n)]
    ELSE [ok |-> FALSE, v |-> TInt(0)]

\* config.go: GetIntSlice
AsIntSlice(f) ==
    IF f.ok /\ f.tr.t = "si" THEN TSeq("si", f.tr.e)
    ELSE IF f.ok /\ f.tr.t = "sa" /\ \A i \in 1..Len(f.tr.e) : IntItem(f.tr.e[i]).ok
    THEN TSeq("si", [i \in 1..Len(f.tr.e) |-> IntItem(f.tr.e[i]).v])
    ELSE TSeq("si", <<>>)

\* config.go: GetStringMap; a map[string]any is copied by cloneMap, the
\* items of the other maps are shared with the result.
AsStringMap(h, f) ==
    IF f.ok /\ f.tr.t = "msa" THEN Deep(cloneMap(h, f.v).h, cloneMap(h, f.v).v)
    ELSE IF f.ok /\ f.tr.t = "mss" THEN TMap("msa", f.tr.m)
    ELSE IF f.ok /\ f.tr.t = "maa" THEN TMap("msa", SprintKeys(f.tr.m, DOMAIN f.tr.m, EmptyMap))
    ELSE TMap("msa", EmptyMap)

\* config.go: GetStringMapString
AsStringMapString(f) ==
    IF f.ok /\ f.tr.t = "mss" THEN TMap("mss", f.tr.m)
    ELSE IF f.ok /\ f.tr.t \in {"msa", "maa"} THEN
        LET m == SprintKeys(f.tr.m, DOMAIN f.tr.m, EmptyMap)
        IN  TMap("mss", [k \in DOMAIN m |-> TStr(stringify(m[k]))])
    ELSE TMap("mss", EmptyMap)

\* config.go: GetStringMapStringSlice; the result is a map[string][]string,
\* msss, whose item is nil where toStringSlice returned nil.  No
\* map[string][]string is stored in the model.
AsStringMapStringSlice(f) ==
    IF f.ok /\ f.tr.t \in {"msa", "maa"} THEN
        LET m == SprintKeys(f.tr.m, DOMAIN f.tr.m, EmptyMap)
        IN  TMap("msss", [k \in DOMAIN m |-> toStringSlice(m[k])])
    ELSE TMap("msss", EmptyMap)

\* A typed getter: it holds the shared lock, resolves the key, converts
\* what it found and returns the result; it stores nothing.  The result
\* records the value found, in arg, beside the value returned.
Typed(op, key, f, result) ==
    /\ ret' = [Return(op, key, f.ok, result, "", Empty)
                  EXCEPT !.arg = f.tr, !.before = Layers(heap, conf)]
    /\ UNCHANGED <<heap, conf, environ, mu, fs, callerData, loaderData, other, registered,
                   watchers, calls>>

GetString(key) ==
    Typed("GetString", key, Resolved(heap, conf, key), AsString(Resolved(heap, conf, key)))

GetInt(key) ==
    Typed("GetInt", key, Resolved(heap, conf, key), AsInt(Resolved(heap, conf, key)))

GetBool(key) ==
    Typed("GetBool", key, Resolved(heap, conf, key), AsBool(Resolved(heap, conf, key)))

GetFloat64(key) ==
    Typed("GetFloat64", key, Resolved(heap, conf, key), AsFloat64(Resolved(heap, conf, key)))

GetDuration(key) ==
    Typed("GetDuration", key, Resolved(heap, conf, key), AsDuration(Resolved(heap, conf, key)))

GetStringSlice(key) ==
    Typed("GetStringSlice", key, Resolved(heap, conf, key),
          AsStringSlice(Resolved(heap, conf, key)))

GetIntSlice(key) ==
    Typed("GetIntSlice", key, Resolved(heap, conf, key), AsIntSlice(Resolved(heap, conf, key)))

\* The copy cloneMap makes is the caller's, and the model drops it with the
\* result, so the heap is as it was.
GetStringMap(key) ==
    /\ Cardinality(FreeAddrs(heap)) >= TreeSize(Resolved(heap, conf, key).tr)
    /\ Typed("GetStringMap", key, Resolved(heap, conf, key),
             AsStringMap(heap, Resolved(heap, conf, key)))

GetStringMapString(key) ==
    Typed("GetStringMapString", key, Resolved(heap, conf, key),
          AsStringMapString(Resolved(heap, conf, key)))

GetStringMapStringSlice(key) ==
    Typed("GetStringMapStringSlice", key, Resolved(heap, conf, key),
          AsStringMapStringSlice(Resolved(heap, conf, key)))

(***************************************************************************)
(* Unmarshal                                                               *)
(*                                                                         *)
(* The decoder is mapstructure's: it reads the data it is given and writes *)
(* to out, and whether it fails depends on the type of out.  What it       *)
(* writes to out may refer to the data, so the data stays reachable from   *)
(* the caller after the call.                                              *)
(***************************************************************************)
\* config.go: Unmarshal, lines 750-752: out is nil
UnmarshalNil(key) ==
    /\ ret' = [Return("Unmarshal", key, FALSE, TNil, "output cannot be nil", Empty)
                  EXCEPT !.before = Layers(heap, conf), !.line = 751]
    /\ UNCHANGED <<heap, conf, environ, mu, fs, callerData, loaderData, other, registered,
                   watchers, calls>>

\* config.go: Unmarshal, lines 757-772: the copy made under the read lock,
\* of the whole of values for the empty key and of what get finds otherwise
unmarshalData(h, c, key) ==
    IF key = Empty THEN
        IF c.values.t # "nil"
        THEN [ok |-> TRUE, h |-> cloneMap(h, c.values).h, v |-> cloneMap(h, c.values).v,
              src |-> Deep(h, c.values)]
        ELSE [ok |-> FALSE, h |-> h, v |-> NilV, src |-> TNil]
    ELSE IF get(h, c, key).ok
    THEN [ok |-> TRUE, h |-> cloneValue(h, get(h, c, key).v).h,
          v |-> cloneValue(h, get(h, c, key).v).v, src |-> Deep(h, get(h, c, key).v)]
    ELSE [ok |-> FALSE, h |-> h, v |-> NilV, src |-> TNil]

\* config.go: Unmarshal, lines 770-784, with d the copy made
UnmarshalReturn(key, d, decodeFails) ==
    /\ Cardinality(FreeAddrs(heap)) >= TreeSize(d.src)
    /\ IF d.ok
       THEN /\ Finish(d.h, conf, d.v, loaderData)
            /\ ret' = [Return("Unmarshal", key, TRUE, Deep(d.h, d.v),
                               IF decodeFails THEN "decode" ELSE "", Empty)
                          EXCEPT !.before = Layers(heap, conf), !.arg = d.src,
                                 !.note = "decoded", !.line = 784]
       ELSE /\ ret' = [Return("Unmarshal", key, FALSE, TNil, "key not found", Empty)
                          EXCEPT !.before = Layers(heap, conf), !.line = 771]
            /\ UNCHANGED <<heap, conf, callerData, loaderData, other>>
    /\ UNCHANGED <<environ, mu, fs, registered, watchers, calls>>

\* config.go: Unmarshal with out not nil
Unmarshal(key, decodeFails) == UnmarshalReturn(key, unmarshalData(heap, conf, key), decodeFails)

(***************************************************************************)
(* OnConfigChange, WatchConfig, Close and the listener goroutine           *)
(*                                                                         *)
(* Every section of code that runs under c.mu is one step: the lock admits *)
(* one holder and nothing in such a section waits.  WatchConfig and Close  *)
(* release the lock between their sections, so each is several steps of    *)
(* its caller, and other goroutines run in between.                        *)
(***************************************************************************)
\* config.go: OnConfigChange
OnConfigChange(fn) ==
    /\ conf' = [conf EXCEPT !.onChange = fn]
    /\ watchers' = [w \in Watcher |->
                       IF watchers[w].state = "free" THEN watchers[w]
                       ELSE [watchers[w] EXCEPT !.cbChanged = TRUE]]
    /\ ret' = Void
    /\ UNCHANGED <<heap, environ, mu, fs, callerData, loaderData, other, registered, calls>>

\* WatchConfig going on to make a watcher when no file is set
WatchConfigBegin_noFileCheck(t) ==
    /\ calls[t] = NoCall
    /\ IF conf.watcher # 0
       THEN ret' = Returned("WatchConfig", "", 425, "") /\ UNCHANGED calls
       ELSE /\ calls' = [calls EXCEPT ![t] =
                           [NoCall EXCEPT !.op = "WatchConfig", !.pc = "new",
                                          !.file = conf.file,
                                          !.note = IF ret.op = "Close" /\ ret.line = 502
                                                   THEN "afterClose" ELSE ""]]
            /\ UNCHANGED ret
    /\ UNCHANGED <<heap, conf, environ, mu, fs, callerData, loaderData, other, registered,
                   watchers>>

\* config.go: WatchConfig, lines 418-428
WatchConfigBegin(t) ==
    /\ calls[t] = NoCall
    /\ IF conf.file = Empty
       THEN ret' = Returned("WatchConfig", "", 421, "") /\ UNCHANGED calls
       ELSE IF conf.watcher # 0
       THEN ret' = Returned("WatchConfig", "", 425, "") /\ UNCHANGED calls
       ELSE /\ calls' = [calls EXCEPT ![t] =
                           [NoCall EXCEPT !.op = "WatchConfig", !.pc = "new",
                                          !.file = conf.file,
                                          !.note = IF ret.op = "Close" /\ ret.line = 502
                                                   THEN "afterClose" ELSE ""]]
            /\ UNCHANGED ret
    /\ UNCHANGED <<heap, conf, environ, mu, fs, callerData, loaderData, other, registered,
                   watchers>>

\* config.go: WatchConfig, lines 430-434: fsnotify.NewWatcher fails, or
\* gives a new watcher, and done is made
WatchConfigNew(t) ==
    /\ calls[t].pc = "new"
    /\ \/ /\ ret' = Returned("WatchConfig", "new watcher failed", 432, calls[t].note)
          /\ calls' = [calls EXCEPT ![t] = NoCall]
          /\ UNCHANGED watchers
       \/ \E w \in Watcher :
             /\ watchers[w].state = "free"
             /\ \A v \in Watcher : watchers[v].state = "free" => w <= v
             /\ watchers' = [watchers EXCEPT ![w] =
                                [FreeWatcher EXCEPT !.state = "open",
                                                    !.fresh = (calls[t].note = "afterClose")]]
             /\ calls' = [calls EXCEPT ![t] = [@ EXCEPT !.pc = "install", !.w = w, !.done = w]]
             /\ UNCHANGED ret
    /\ UNCHANGED <<heap, conf, environ, mu, fs, callerData, loaderData, other, registered>>

\* WatchConfig without the second look at c.watcher before the store
WatchConfigInstall_noRecheck(t) ==
    LET w == calls[t].w
    IN  /\ calls[t].pc = "install"
        /\ conf' = [conf EXCEPT !.watcher = w, !.watcherDone = calls[t].done]
        /\ calls' = [calls EXCEPT ![t] = [@ EXCEPT !.pc = "start", !.file = conf.file]]
        /\ watchers' = [watchers EXCEPT ![w] = [@ EXCEPT !.cbChanged = FALSE]]
        /\ UNCHANGED <<heap, environ, mu, fs, callerData, loaderData, other, registered, ret>>

\* config.go: WatchConfig, lines 436-450
WatchConfigInstall(t) ==
    LET w == calls[t].w
        closed == [watchers EXCEPT ![w] = [@ EXCEPT !.state = "closed"]]
        idle == [calls EXCEPT ![t] = NoCall]
    IN  /\ calls[t].pc = "install"
        /\ IF conf.file = Empty \/ conf.watcher # 0
           THEN /\ watchers' = Recycle(closed, conf, idle)
                /\ calls' = idle
                /\ ret' = Returned("WatchConfig", "", IF conf.file = Empty THEN 440 ELSE 445,
                                   calls[t].note)
                /\ UNCHANGED conf
           ELSE /\ conf' = [conf EXCEPT !.watcher = w, !.watcherDone = calls[t].done]
                /\ calls' = [calls EXCEPT ![t] = [@ EXCEPT !.pc = "start", !.file = conf.file]]
                /\ watchers' = [watchers EXCEPT ![w] = [@ EXCEPT !.cbChanged = FALSE]]
                /\ UNCHANGED ret
        /\ UNCHANGED <<heap, environ, mu, fs, callerData, loaderData, other, registered>>

\* config.go: WatchConfig, lines 452-483: the go statement starts the
\* listener, then w.Add(file) fails on a closed watcher or a missing file
WatchConfigStart(t) ==
    LET w == calls[t].w
        err == IF watchers[w].state # "open" THEN "watcher closed"
               ELSE IF ~Exists(calls[t].file) THEN "no such file"
               ELSE ""
        started == [watchers EXCEPT ![w] =
                       [@ EXCEPT !.pc = "select",
                                 !.paths = IF err = "" THEN @ \cup {calls[t].file} ELSE @]]
        idle == [calls EXCEPT ![t] = NoCall]
    IN  /\ calls[t].pc = "start"
        /\ watchers' = Recycle(started, conf, idle)
        /\ calls' = idle
        /\ ret' = Returned("WatchConfig", err, 483, calls[t].note)
        /\ UNCHANGED <<heap, conf, environ, mu, fs, callerData, loaderData, other, registered>>

\* Close leaving c.watcher and c.watcherDone as they are
CloseBegin_keepHandle(t) ==
    /\ calls[t] = NoCall
    /\ IF conf.watcher = 0
       THEN ret' = Returned("Close", "", 491, "") /\ UNCHANGED <<conf, calls>>
       ELSE /\ UNCHANGED conf
            /\ calls' = [calls EXCEPT ![t] =
                           [NoCall EXCEPT !.op = "Close", !.pc = "closing",
                                          !.w = conf.watcher, !.done = conf.watcherDone,
                                          !.note = watchers[conf.watcher].pc]]
            /\ UNCHANGED ret
    /\ UNCHANGED <<heap, environ, mu, fs, callerData, loaderData, other, registered, watchers>>

\* config.go: Close, lines 488-497
CloseBegin(t) ==
    /\ calls[t] = NoCall
    /\ IF conf.watcher = 0
       THEN ret' = Returned("Close", "", 491, "") /\ UNCHANGED <<conf, calls>>
       ELSE /\ conf' = [conf EXCEPT !.watcher = 0, !.watcherDone = 0]
            /\ calls' = [calls EXCEPT ![t] =
                           [NoCall EXCEPT !.op = "Close", !.pc = "closing",
                                          !.w = conf.watcher, !.done = conf.watcherDone,
                                          !.note = watchers[conf.watcher].pc]]
            /\ UNCHANGED ret
    /\ UNCHANGED <<heap, environ, mu, fs, callerData, loaderData, other, registered, watchers>>

\* Close going on to the wait without closing the watcher
CloseWatcher_noClose(t) ==
    /\ calls[t].pc = "closing"
    /\ calls' = [calls EXCEPT ![t] = [@ EXCEPT !.pc = "wait"]]
    /\ UNCHANGED <<heap, conf, environ, mu, fs, callerData, loaderData, other, registered, ret,
                   watchers>>

\* config.go: Close, line 498: w.Close()
CloseWatcher(t) ==
    /\ calls[t].pc = "closing"
    /\ watchers' = [watchers EXCEPT ![calls[t].w] = [@ EXCEPT !.state = "closed"]]
    /\ calls' = [calls EXCEPT ![t] = [@ EXCEPT !.pc = "wait"]]
    /\ UNCHANGED <<heap, conf, environ, mu, fs, callerData, loaderData, other, registered, ret>>

\* Close returning without the receive from done
CloseWait_noRendezvous(t) ==
    LET idle == [calls EXCEPT ![t] = NoCall]
    IN  /\ calls[t].pc = "wait"
        /\ watchers' = Recycle(watchers, conf, idle)
        /\ calls' = idle
        /\ ret' = Returned("Close", "", 502, calls[t].note)
        /\ UNCHANGED <<heap, conf, environ, mu, fs, callerData, loaderData, other, registered>>

\* config.go: Close, lines 499-502: the receive from done, then the return
CloseWait(t) ==
    LET idle == [calls EXCEPT ![t] = NoCall]
    IN  /\ calls[t].pc = "wait"
        /\ calls[t].done # 0 => watchers[calls[t].done].done
        /\ watchers' = Recycle(watchers, conf, idle)
        /\ calls' = idle
        /\ ret' = Returned("Close", "", 502, calls[t].note)
        /\ UNCHANGED <<heap, conf, environ, mu, fs, callerData, loaderData, other, registered>>

\* The listener going to the callback on a write event without reloading
ListenerReceive_skipReload(w) ==
    /\ watchers[w].pc = "select"
    /\ watchers[w].events # <<>>
    /\ watchers' = [watchers EXCEPT ![w] =
                       [@ EXCEPT !.events = Tail(@), !.reload = "none", !.invoked = 0,
                                 !.callback = "nil", !.cbChanged = FALSE, !.seen = 0,
                                 !.pc = IF "Write" \in Head(watchers[w].events)
                                        THEN "fetch" ELSE "select"]]
    /\ UNCHANGED <<heap, conf, environ, mu, fs, callerData, loaderData, other, registered, calls,
                   ret>>

\* config.go: lines 456-460, 471: the listener receives an event, which
\* may still arrive after the watcher was closed
ListenerReceive(w) ==
    /\ watchers[w].pc = "select"
    /\ watchers[w].events # <<>>
    /\ watchers' = [watchers EXCEPT ![w] =
                       [@ EXCEPT !.events = Tail(@), !.reload = "none", !.invoked = 0,
                                 !.callback = "nil", !.cbChanged = FALSE, !.seen = 0,
                                 !.pc = IF "Write" \in Head(watchers[w].events)
                                        THEN "reload" ELSE "select"]]
    /\ UNCHANGED <<heap, conf, environ, mu, fs, callerData, loaderData, other, registered, calls,
                   ret>>

\* The listener w can do its reload: it has taken a write event, and the
\* heap has room for any document.
ReloadEnabled(w) ==
    /\ watchers[w].pc = "reload"
    /\ \A n \in DOMAIN Docs : Cardinality(FreeAddrs(heap)) >= DocRoom(Docs[n])

\* The step in which the listener w comes out of its reload.
Reloaded(w) == watchers[w].pc = "reload" /\ watchers'[w].pc # "reload"

\* The listener going on to the callback after a reload that failed
ListenerReload_noContinue(w) ==
    LET r == readInConfigLocked(heap, conf)
    IN  /\ ReloadEnabled(w)
        /\ Finish(r.h, r.c, callerData, Kept(r))
        /\ watchers' = [watchers EXCEPT ![w] =
                           [@ EXCEPT !.reload = IF r.err = "" THEN "ok" ELSE "failed",
                                     !.failed = @ \/ r.err # "",
                                     !.seen = IF r.err = "" THEN fs[r.c.file] ELSE 0,
                                     !.pc = "fetch"]]
        /\ UNCHANGED <<environ, mu, fs, registered, calls, ret>>

\* The listener returning when a reload fails
ListenerReload_stopOnError(w) ==
    LET r == readInConfigLocked(heap, conf)
    IN  /\ ReloadEnabled(w)
        /\ Finish(r.h, r.c, callerData, Kept(r))
        /\ watchers' = [watchers EXCEPT ![w] =
                           [@ EXCEPT !.reload = IF r.err = "" THEN "ok" ELSE "failed",
                                     !.failed = @ \/ r.err # "",
                                     !.seen = IF r.err = "" THEN fs[r.c.file] ELSE 0,
                                     !.done = @ \/ r.err # "",
                                     !.pc = IF r.err = "" THEN "fetch" ELSE "exited"]]
        /\ UNCHANGED <<environ, mu, fs, registered, calls, ret>>

\* config.go: lines 461-464: c.ReadInConfig() has returned r to the
\* listener, which logs an error and goes back to the select
ListenerReloadReturn(w, r) ==
    /\ ReloadEnabled(w)
    /\ Finish(r.h, r.c, callerData, Kept(r))
    /\ watchers' = [watchers EXCEPT ![w] =
                       [@ EXCEPT !.reload = IF r.err = "" THEN "ok" ELSE "failed",
                                 !.failed = @ \/ r.err # "",
                                 !.seen = IF r.err = "" THEN fs[r.c.file] ELSE 0,
                                 !.pc = IF r.err = "" THEN "fetch" ELSE "select"]]
    /\ UNCHANGED <<environ, mu, fs, registered, calls, ret>>

\* config.go: lines 461-464: the listener calls ReadInConfig
ListenerReload(w) == ListenerReloadReturn(w, readInConfigLocked(heap, conf))

\* config.go: lines 465-468: the listener reads c.onChange
ListenerFetch(w) ==
    /\ watchers[w].pc = "fetch"
    /\ watchers' = [watchers EXCEPT ![w] =
                       [@ EXCEPT !.callback = conf.onChange,
                                 !.seen = IF conf.onChange = "nil" THEN 0 ELSE @,
                                 !.pc = IF conf.onChange = "nil" THEN "select" ELSE "call"]]
    /\ UNCHANGED <<heap, conf, environ, mu, fs, callerData, loaderData, other, registered, calls,
                   ret>>

\* config.go: line 469: the callback runs and returns
ListenerCall(w) ==
    /\ watchers[w].pc = "call"
    /\ watchers' = [watchers EXCEPT ![w] =
                       [@ EXCEPT !.invoked = @ + 1, !.seen = 0, !.pc = "select"]]
    /\ UNCHANGED <<heap, conf, environ, mu, fs, callerData, loaderData, other, registered, calls,
                   ret>>

\* The listener returning when it receives a watcher error
ListenerError_exit(w) ==
    /\ watchers[w].pc = "select"
    /\ watchers[w].errors
    /\ watchers' = [watchers EXCEPT ![w] =
                       [@ EXCEPT !.errors = FALSE, !.erred = TRUE, !.pc = "exited",
                                 !.done = TRUE]]
    /\ UNCHANGED <<heap, conf, environ, mu, fs, callerData, loaderData, other, registered, calls,
                   ret>>

\* config.go: lines 472-479: the listener receives a watcher error and logs
ListenerError(w) ==
    /\ watchers[w].pc = "select"
    /\ watchers[w].errors
    /\ watchers' = [watchers EXCEPT ![w] = [@ EXCEPT !.errors = FALSE, !.erred = TRUE]]
    /\ UNCHANGED <<heap, conf, environ, mu, fs, callerData, loaderData, other, registered, calls,
                   ret>>

\* config.go: lines 453, 457-458, 473-474: the channels of a closed watcher
\* are closed; the listener returns and done is closed
ListenerClosed(w) ==
    /\ watchers[w].pc = "select"
    /\ watchers[w].state = "closed"
    /\ watchers' = Recycle([watchers EXCEPT ![w] = [@ EXCEPT !.pc = "exited", !.done = TRUE]],
                           conf, calls)
    /\ UNCHANGED <<heap, conf, environ, mu, fs, callerData, loaderData, other, registered, calls,
                   ret>>

\* fsnotify reports an error on the Errors channel of an open watcher.
WatcherError(w) ==
    /\ watchers[w].state = "open"
    /\ ~watchers[w].errors
    /\ watchers' = [watchers EXCEPT ![w] = [@ EXCEPT !.errors = TRUE]]
    /\ UNCHANGED <<heap, conf, environ, mu, fs, callerData, loaderData, other, registered, calls,
                   ret>>

\* os.Chmod: an operation on the file that is no write
Chmod(path) ==
    /\ Exists(path)
    /\ \A w \in Watching(watchers, path) : Len(watchers[w].events) < MaxEvents
    /\ watchers' = Deliver(watchers, path, {"Chmod"})
    /\ ret' = Void
    /\ UNCHANGED <<heap, conf, environ, mu, fs, callerData, loaderData, other, registered, calls>>

(***************************************************************************)
(* The calls lock by lock                                                  *)
(*                                                                         *)
(* Here a call is followed through c.mu: it is called, it is granted the   *)
(* lock, it runs its section, it releases the lock.  A reload runs its     *)
(* section in steps: the file is decoded and values replaced by an empty   *)
(* map, then the keys of the decoded map are merged one at a time.  The    *)
(* goroutines are the callers and one listener; the calls of a goroutine   *)
(* are in mu.g, the watcher's pending write events in mu.events.           *)
(***************************************************************************)
\* The sections entered with c.mu.Lock() and those entered with c.mu.RLock();
\* fetch is the listener reading c.onChange.
LockOps == {"SetDefault", "MergeConfigMap", "ReadInConfig", "RegisterLoader",
            "OnConfigChange", "WatchConfig", "WatchConfigInstall", "Close"}
RLockOps == {"GetInt", "fetch"}

\* The fields of Config a section reads and those it writes; the maps a
\* field refers to count with the field.
Reads(op) ==
    CASE op = "GetInt" -> {"automatic", "envBindings", "envPrefix", "values", "defaults"}
      [] op = "fetch" -> {"onChange"}
      [] op = "ReadInConfig" -> {"file", "cfgName", "cfgType", "cfgPaths", "loaders", "values"}
      [] op = "MergeConfigMap" -> {"values"}
      [] op = "SetDefault" -> {"defaults"}
      [] op = "RegisterLoader" -> {"loaders"}
      [] op = "WatchConfig" -> {"file", "watcher"}
      [] op = "WatchConfigInstall" -> {"file", "watcher"}
      [] op = "Close" -> {"watcher", "watcherDone"}
      [] OTHER -> {}

Writes(op) ==
    CASE op = "ReadInConfig" -> {"file", "values"}
      [] op = "MergeConfigMap" -> {"values"}
      [] op = "SetDefault" -> {"defaults"}
      [] op = "RegisterLoader" -> {"loaders"}
      [] op = "OnConfigChange" -> {"onChange"}
      [] op = "WatchConfigInstall" -> {"watcher", "watcherDone"}
      [] op = "Close" -> {"watcher", "watcherDone"}
      [] OTHER -> {}

\* The goroutine is in a section, between taking the lock and releasing it.
InSection(m, g) == m.g[g].pc \in {"busy", "merge"}

\* A reload holds the lock.
Reloading(m) == \E g \in Goroutine : m.g[g].op = "ReadInConfig" /\ InSection(m, g)

\* The goroutine calls Lock or RLock for the section op.
Enter(m, g, op, from) ==
    [m EXCEPT !.g[g] = [@ EXCEPT !.op = op, !.pc = "wait", !.err = "", !.from = from,
                                 !.conc = Reloading(m)],
              !.q = IF op \in LockOps THEN @ \cup {g} ELSE @]

\* What the callback registered under a name calls, in order.
CallbackCalls(fn) ==
    IF fn = "nil" THEN <<>>
    ELSE IF fn = "cb1" THEN <<"GetInt">>
    ELSE IF fn = "cbClose" THEN <<"Close">>
    ELSE <<"SetDefault", "GetInt", "MergeConfigMap", "ReadInConfig">>

\* A caller calls a method of the Config.
Call(g, op) ==
    /\ g \in Caller
    /\ mu.g[g].pc = "idle"
    /\ mu' = Enter(mu, g, op, "caller")
    /\ UNCHANGED <<heap, conf, environ, fs, callerData, loaderData, other, ret, registered,
                   watchers, calls>>

\* Acquire with OnConfigChange running its section without the lock
Acquire_onChangeUnlocked(g) ==
    /\ mu.g[g].pc = "wait"
    /\ IF mu.g[g].op = "OnConfigChange" THEN TRUE
       ELSE IF mu.g[g].op \in LockOps THEN mu.w = 0 /\ mu.r = {}
       ELSE mu.w = 0 /\ mu.q = {}
    /\ mu' = [mu EXCEPT !.g[g].pc = "busy",
                        !.w = IF mu.g[g].op \in LockOps \ {"OnConfigChange"} THEN g ELSE @,
                        !.r = IF mu.g[g].op \in RLockOps THEN @ \cup {g} ELSE @,
                        !.q = @ \ {g}]
    /\ UNCHANGED <<heap, conf, environ, fs, callerData, loaderData, other, ret, registered,
                   watchers, calls>>

\* Acquire with RLock returning while a goroutine holds the lock for writing
Acquire_readDuringWrite(g) ==
    /\ mu.g[g].pc = "wait"
    /\ IF mu.g[g].op \in LockOps THEN mu.w = 0 /\ mu.r = {} ELSE TRUE
    /\ mu' = [mu EXCEPT !.g[g].pc = "busy",
                        !.w = IF mu.g[g].op \in LockOps THEN g ELSE @,
                        !.r = IF mu.g[g].op \in RLockOps THEN @ \cup {g} ELSE @,
                        !.q = @ \ {g}]
    /\ UNCHANGED <<heap, conf, environ, fs, callerData, loaderData, other, ret, registered,
                   watchers, calls>>

\* sync.RWMutex: Lock returns when no goroutine holds the lock; RLock returns
\* when no goroutine holds it for writing and none is blocked in Lock.
Acquire(g) ==
    /\ mu.g[g].pc = "wait"
    /\ IF mu.g[g].op \in LockOps THEN mu.w = 0 /\ mu.r = {}
       ELSE mu.w = 0 /\ mu.q = {}
    /\ mu' = [mu EXCEPT !.g[g].pc = "busy",
                        !.w = IF mu.g[g].op \in LockOps THEN g ELSE @,
                        !.r = IF mu.g[g].op \in RLockOps THEN @ \cup {g} ELSE @,
                        !.q = @ \ {g}]
    /\ UNCHANGED <<heap, conf, environ, fs, callerData, loaderData, other, ret, registered,
                   watchers, calls>>

\* The goroutine is in the section op and has not run it yet.
At(g, op) == mu.g[g].pc = "busy" /\ mu.g[g].op = op

\* The section has run and returns err.
Ran(g, err) == mu' = [mu EXCEPT !.g[g].pc = "done", !.g[g].err = err]

\* config.go: GetInt, lines 522-538, of the key k
InGetInt(g) ==
    /\ At(g, "GetInt")
    /\ mu' = [mu EXCEPT !.g[g].pc = "done", !.g[g].v = AsInt(Resolved(heap, conf, kK))]
    /\ UNCHANGED <<heap, conf, environ, fs, callerData, loaderData, other, ret, registered,
                   watchers, calls>>

\* config.go: SetDefault, lines 73-75, of the key d and the value 7
InSetDefault(g) ==
    LET b == Build(heap, TInt(7))
        h2 == SetKey(b.h, conf.defaults.a, StrV(<<"d">>), b.v)
    IN  /\ At(g, "SetDefault")
        /\ Finish(h2, conf, callerData, loaderData)
        /\ Ran(g, "")
        /\ UNCHANGED <<environ, fs, ret, registered, watchers, calls>>

\* config.go: MergeConfigMap, lines 134-143, of a map the caller drops
InMergeConfigMap(g) ==
    LET b == Build(heap, T_k3)
        r == mergeConfigMap(b.h, conf, b.v)
    IN  /\ At(g, "MergeConfigMap")
        /\ Cardinality(FreeAddrs(heap)) >= 3 * TreeSize(T_k3)
        /\ Finish(r.h, r.c, callerData, loaderData)
        /\ Ran(g, "")
        /\ UNCHANGED <<environ, fs, ret, registered, watchers, calls>>

\* config.go: RegisterLoader, lines 193-202, of the extension json and the
\* loader it has
InRegisterLoader(g) ==
    /\ At(g, "RegisterLoader")
    /\ conf' = [conf EXCEPT !.loaders =
                   [f \in (DOMAIN @) \cup {fJSON} |-> IF f = fJSON THEN "JSONLoader" ELSE @[f]]]
    /\ Ran(g, "")
    /\ UNCHANGED <<heap, environ, fs, callerData, loaderData, other, ret, registered, watchers,
                   calls>>

\* config.go: OnConfigChange, lines 411-413
InOnConfigChange(g) ==
    /\ At(g, "OnConfigChange")
    /\ conf' = [conf EXCEPT !.onChange = "cb1"]
    /\ Ran(g, "")
    /\ UNCHANGED <<heap, environ, fs, callerData, loaderData, other, ret, registered, watchers,
                   calls>>

\* config.go: WatchConfig, lines 418-428
InWatchConfig(g) ==
    /\ At(g, "WatchConfig")
    /\ Ran(g, IF conf.file = Empty THEN "no config file to watch"
              ELSE IF conf.watcher # 0 THEN "watching" ELSE "")
    /\ UNCHANGED <<heap, conf, environ, fs, callerData, loaderData, other, ret, registered,
                   watchers, calls>>

\* config.go: WatchConfig, lines 436-450
InWatchConfigInstall(g) ==
    /\ At(g, "WatchConfigInstall")
    /\ conf' = IF conf.watcher # 0 THEN conf
               ELSE [conf EXCEPT !.watcher = 1, !.watcherDone = 1]
    /\ Ran(g, IF conf.watcher # 0 THEN "watching" ELSE "")
    /\ UNCHANGED <<heap, environ, fs, callerData, loaderData, other, ret, registered, watchers,
                   calls>>

\* config.go: Close, lines 488-497
InClose(g) ==
    /\ At(g, "Close")
    /\ conf' = [conf EXCEPT !.watcher = 0, !.watcherDone = 0]
    /\ Ran(g, IF conf.watcher = 0 THEN "no watcher" ELSE "")
    /\ UNCHANGED <<heap, environ, fs, callerData, loaderData, other, ret, registered, watchers,
                   calls>>

\* config.go: the listener, line 466
InFetch(g) ==
    /\ At(g, "fetch")
    /\ mu' = [mu EXCEPT !.g[g].pc = "done", !.g[g].cb = CallbackCalls(conf.onChange)]
    /\ UNCHANGED <<heap, conf, environ, fs, callerData, loaderData, other, ret, registered,
                   watchers, calls>>

\* config.go: readInConfigLocked, lines 147-174: what it returns before the
\* merge, or the decoded map and the Config with values replaced
readInConfigDecode(h, c) ==
    IF c.file = Empty /\ c.cfgName = Empty
    THEN [h |-> h, c |-> c, err |-> "", merge |-> FALSE, data |-> NilV, kept |-> NilV]
    ELSE IF locateFile(c) = Empty
    THEN [h |-> h, c |-> c, err |-> "file does not exist", merge |-> FALSE,
          data |-> NilV, kept |-> NilV]
    ELSE LET c1 == [c EXCEPT !.file = locateFile(c)]
         IN  IF ~Exists(c1.file)
             THEN [h |-> h, c |-> c1, err |-> "file does not exist", merge |-> FALSE,
                   data |-> NilV, kept |-> NilV]
             ELSE LET d == decodeConfig(h, c1, Docs[fs[c1.file]], TrimDot(ToLower(Ext(c1.file))))
                      fresh == Make(d.h, MapObj("msa", EmptyMap))
                  IN  IF d.err # ""
                      THEN [h |-> h, c |-> c1, err |-> d.err, merge |-> FALSE,
                            data |-> NilV, kept |-> NilV]
                      ELSE [h |-> fresh.h, c |-> [c1 EXCEPT !.values = fresh.v], err |-> "",
                            merge |-> TRUE, data |-> d.v, kept |-> d.kept]

\* The reload has decoded the file: r is what readInConfigDecode returned.
DecodeReturn(g, r) ==
    /\ At(g, "ReadInConfig")
    /\ \A n \in DOMAIN Docs : Cardinality(FreeAddrs(heap)) >= DocRoom(Docs[n])
    /\ heap' = r.h
    /\ conf' = r.c
    /\ mu' = [mu EXCEPT !.g[g] =
                 [@ EXCEPT !.pc = IF r.merge THEN "merge" ELSE "done",
                           !.err = r.err, !.data = r.data, !.kept = r.kept,
                           !.todo = IF r.data.t = "nil" THEN {} ELSE DOMAIN r.h[r.data.a].m]]
    /\ UNCHANGED <<environ, fs, callerData, loaderData, other, ret, registered, watchers, calls>>

\* config.go: readInConfigLocked, lines 147-174
InReadInConfig(g) == DecodeReturn(g, readInConfigDecode(heap, conf))

\* config.go: mergeMaps, one turn of its loop over the decoded map, whose
\* order Go leaves open
MergeKey(g) ==
    /\ mu.g[g].pc = "merge"
    /\ \E k \in mu.g[g].todo :
          /\ heap' = mergeEntries(heap, conf.values.a, mu.g[g].data.a, {k})
          /\ mu' = [mu EXCEPT !.g[g].todo = @ \ {k}]
    /\ UNCHANGED <<conf, environ, fs, callerData, loaderData, other, ret, registered, watchers,
                   calls>>

\* config.go: readInConfigLocked, line 176: the merge is over
MergeEnd(g) ==
    /\ mu.g[g].pc = "merge"
    /\ mu.g[g].todo = {}
    /\ Finish(heap, conf, callerData,
              IF mu.g[g].kept.t = "nil" THEN loaderData ELSE mu.g[g].kept)
    /\ mu' = [mu EXCEPT !.g[g] = [@ EXCEPT !.pc = "done", !.data = NilV, !.kept = NilV]]
    /\ UNCHANGED <<environ, fs, ret, registered, watchers, calls>>

\* The lock as the goroutine's Unlock or RUnlock leaves it; whole is the
\* content of values a writer leaves.
Unlock(m, g) ==
    [m EXCEPT !.w = IF @ = g THEN 0 ELSE @,
              !.r = @ \ {g},
              !.whole = IF m.g[g].op \in LockOps THEN Deep(heap, conf.values) ELSE @]

\* Where a goroutine goes on from the Unlock or RUnlock of its section.
\* WatchConfig goes on to its second section, and after that starts the
\* listener and adds the file to the watcher; Close closes the watcher and
\* waits for the listener; the listener reads c.onChange after a reload
\* that succeeded and calls it if it is not nil; a callback goes on, unless
\* the call it made is a Close that found a watcher: that Close goes on to
\* close the watcher and to wait for the listener as any other.
Proceed(m, g) ==
    LET s == m.g[g]
    IN  IF s.from = "callback" /\ s.op = "Close" /\ s.err = ""
        THEN [m EXCEPT !.g[g] = [@ EXCEPT !.op = "", !.pc = "closing"],
                       !.open = FALSE, !.events = 0]
        ELSE IF s.from = "callback" THEN [m EXCEPT !.g[g] = [@ EXCEPT !.op = "", !.pc = "call"]]
        ELSE IF g = Listener /\ s.op = "ReadInConfig"
        THEN IF s.err = "" THEN Enter(m, g, "fetch", "event")
             ELSE [m EXCEPT !.g[g] = [Idle EXCEPT !.pc = "select"]]
        ELSE IF g = Listener
        THEN IF s.cb = <<>> THEN [m EXCEPT !.g[g] = [Idle EXCEPT !.pc = "select"]]
             ELSE [m EXCEPT !.g[g] = [@ EXCEPT !.op = "", !.pc = "call"]]
        ELSE IF s.op = "WatchConfig" /\ s.err = "" THEN Enter(m, g, "WatchConfigInstall", "caller")
        ELSE IF s.op = "WatchConfigInstall" /\ s.err = ""
        THEN [m EXCEPT !.g[g] = Idle, !.g[Listener] = [Idle EXCEPT !.pc = "select"],
                       !.open = TRUE, !.events = 0]
        ELSE IF s.op = "Close" /\ s.err = ""
        THEN [m EXCEPT !.g[g] = [Idle EXCEPT !.pc = "closing"], !.open = FALSE, !.events = 0]
        ELSE [m EXCEPT !.g[g] = Idle]

\* The listener keeping the lock it read c.onChange under while it calls it
Release_heldInCallback(g) ==
    /\ mu.g[g].pc = "done"
    /\ mu.g[g].op = "WatchConfigInstall" /\ mu.g[g].err = "" => mu.g[Listener].pc = "off"
    /\ mu' = Proceed(IF mu.g[g].op = "fetch" THEN mu ELSE Unlock(mu, g), g)
    /\ UNCHANGED <<heap, conf, environ, fs, callerData, loaderData, other, ret, registered,
                   watchers, calls>>

\* c.mu.Unlock() or c.mu.RUnlock() at the end of a section, deferred or not
Release(g) ==
    /\ mu.g[g].pc = "done"
    /\ mu.g[g].op = "WatchConfigInstall" /\ mu.g[g].err = "" => mu.g[Listener].pc = "off"
    /\ mu' = Proceed(Unlock(mu, g), g)
    /\ UNCHANGED <<heap, conf, environ, fs, callerData, loaderData, other, ret, registered,
                   watchers, calls>>

\* config.go: Close, line 501: the listener has seen the channels closed
\* and closed done
CloseJoin(g) ==
    /\ mu.g[g].pc = "closing"
    /\ mu.g[Listener].pc = "select"
    /\ mu' = [mu EXCEPT !.g[g] = Idle, !.g[Listener] = [Idle EXCEPT !.pc = "off"]]
    /\ UNCHANGED <<heap, conf, environ, fs, callerData, loaderData, other, ret, registered,
                   watchers, calls>>

\* config.go: the listener, lines 455-461: it takes a write event and calls
\* ReadInConfig
ListenerTake ==
    /\ mu.g[Listener].pc = "select"
    /\ mu.open /\ mu.events > 0
    /\ mu' = Enter([mu EXCEPT !.events = @ - 1], Listener, "ReadInConfig", "event")
    /\ UNCHANGED <<heap, conf, environ, fs, callerData, loaderData, other, ret, registered,
                   watchers, calls>>

\* config.go: the listener, line 469: the callback makes its next call
CallbackCall ==
    /\ mu.g[Listener].pc = "call"
    /\ mu.g[Listener].cb # <<>>
    /\ mu' = Enter([mu EXCEPT !.g[Listener].cb = Tail(@)], Listener,
                   Head(mu.g[Listener].cb), "callback")
    /\ UNCHANGED <<heap, conf, environ, fs, callerData, loaderData, other, ret, registered,
                   watchers, calls>>

\* config.go: the listener, line 469: the callback returns
CallbackReturn ==
    /\ mu.g[Listener].pc = "call"
    /\ mu.g[Listener].cb = <<>>
    /\ mu' = [mu EXCEPT !.g[Listener] = [Idle EXCEPT !.pc = "select"]]
    /\ UNCHANGED <<heap, conf, environ, fs, callerData, loaderData, other, ret, registered,
                   watchers, calls>>

\* os.WriteFile of the watched file; an open watcher reports the write.
FileWrite(n) ==
    /\ mu.events < MaxEvents
    /\ fs[pJ] # n
    /\ fs' = [fs EXCEPT ![pJ] = n]
    /\ mu' = [mu EXCEPT !.events = IF mu.open THEN @ + 1 ELSE @]
    /\ UNCHANGED <<heap, conf, environ, callerData, loaderData, other, ret, registered, watchers,
                   calls>>

ResolveKeys == {kA, kAX, kK}
ResolvePrefixes == {Empty, <<"P">>}
ResolveEnvNames == {eAX, ePAX, eX}
ResolveDefaults == {TInt(8), TMap("msa", Entry(<<"x">>, TInt(7)))}
ResolveTrees == {T_ax1, T_k3}

NextResolve ==
    \/ \E p \in ResolvePrefixes : SetEnvPrefix(p)
    \/ AutomaticEnv
    \/ BindEnv(kAX, eX)
    \/ \E k \in {kA, kK} : \E tr \in ResolveDefaults : SetDefault(k, tr)
    \/ \E n \in ResolveEnvNames : Setenv(n, <<"e">>)
    \/ \E n \in ResolveEnvNames : Unsetenv(n)
    \/ \E tr \in ResolveTrees : MergeConfigMap(tr)
    \/ \E k \in ResolveKeys : Get(k)

SpecResolve == Init /\ [][NextResolve]_vars

MergeTrees == {T_ax1, T_ay2, T_as, T_hosts, T_ahw, T_mss, T_axp, T_axq, TNil}
MergeKeys == {kAX, kAH0}

NextMerge ==
    \/ SetConfigType(<<"Y", "A", "M", "L">>)
    \/ \E n \in {3, 5} : \E readFails \in BOOLEAN : ReadConfig(Docs[n], readFails)
    \/ \E tr \in MergeTrees : MergeConfigMap(tr)
    \/ \E a \in Addr : CallerMutate(a)
    \/ \E k \in MergeKeys : Get(k)

SpecMerge == Init /\ [][NextMerge]_vars

\* Maps of every kind read through loaders and merged by callers.
NormalTrees == {T_maa, T_mia, T_smaa, T_mss, T_ax1}

NextNormal ==
    \/ SetConfigType(fYAML)
    \/ ReadConfig(Docs[5], FALSE)
    \/ SetConfigFile(pK)
    \/ RegisterLoader(<<".", "K">>, "KeepLoader")
    \/ WriteFile(pK, 4)
    \/ ReadInConfig
    \/ \E tr \in NormalTrees : MergeConfigMap(tr)

SpecNormal == Init /\ [][NextNormal]_vars

\* Values of every kind the typed getters tell apart, set as defaults by
\* the caller: numbers of each numeric type, zero and not; strings that
\* parse as a number, a bool, a duration or a list and strings that do not,
\* among them a number beyond int and one beyond float64; null; slices and
\* maps of each type.
TypedValues ==
    {TInt(0), TInt(7), TInt64(0), TInt64(1), TFloat(<<"0">>), TFloat(<<"2", ".", "5">>),
     TFloat(<<"-", "0", ".", "5">>), TBool(TRUE), TBool(FALSE), TNil,
     TStr(<<>>), TStr(<<"t", "r", "u", "e">>), TStr(<<"x">>), TStr(<<"4", "2">>),
     TStr(<<"1", ".", "5", "0">>), TStr(<<"2", "s">>), TStr(<<"a", ",", " ", "b">>),
     TStr(<<"9", "9", "9", "9", "9", "9", "9", "9", "9", "9",
            "9", "9", "9", "9", "9", "9", "9", "9", "9", "9">>),
     TStr(<<"1", "e", "9", "9", "9">>),
     TSeq("sa", <<TInt(1), TStr(<<"2">>), TFloat(<<"2", ".", "5">>)>>),
     TSeq("sa", <<TInt(1), TStr(<<"x">>)>>),
     TSeq("ss", <<TStr(sU), TStr(sV)>>),
     TSeq("si", <<TInt(1), TInt(2)>>),
     TMap("msa", Entries2(<<"p">>, TInt(1), <<"q">>, TNil)),
     TMap("msa", Entry(<<"h">>, TSeq("smsa", <<TMap("msa", Entry(<<"y">>, TInt(2)))>>))),
     TMap("mss", Entry(<<"x">>, TStr(sU))),
     TMap("maa", [x \in {IntV(1), IntV(2)} |-> IF x = IntV(1) THEN TStr(sU) ELSE TStr(<<"a", ",", "b">>)])}

TypedKeys == {<<"k">>}
\* The keys read: the one that is set, a key that never is, and a key
\* below the one that is set.
TypedReads == TypedKeys \cup {<<"z">>, <<"k", ".", "p">>}

NextTyped ==
    \/ \E k \in TypedKeys : \E tr \in TypedValues : SetDefault(k, tr)
    \/ \E k \in TypedReads : GetString(k)
    \/ \E k \in TypedReads : GetInt(k)
    \/ \E k \in TypedReads : GetBool(k)
    \/ \E k \in TypedReads : GetFloat64(k)
    \/ \E k \in TypedReads : GetDuration(k)
    \/ \E k \in TypedReads : GetStringSlice(k)
    \/ \E k \in TypedReads : GetIntSlice(k)
    \/ \E k \in TypedReads : GetStringMap(k)
    \/ \E k \in TypedReads : GetStringMapString(k)
    \/ \E k \in TypedReads : GetStringMapStringSlice(k)

SpecTyped == Init /\ [][NextTyped]_vars

\* Maps merged into values and values set as defaults before Unmarshal is
\* called: maps and slices of the types cloneValue switches on, and a
\* map[string]string and a []string.
UnmarshalTrees == {T_ax1, T_hosts, T_mss, T_smaa}
UnmarshalDefaults ==
    {TInt(7), TSeq("ss", <<TStr(sU), TStr(sV)>>),
     TSeq("smsa", <<TMap("msa", Entry(<<"y">>, TInt(2)))>>)}
UnmarshalKeys == {Empty, kA, kAX, <<"d">>, <<"l">>, <<"z">>}

NextUnmarshal ==
    \/ \E tr \in UnmarshalTrees : MergeConfigMap(tr)
    \/ \E tr \in UnmarshalDefaults : SetDefault(<<"d">>, tr)
    \/ \E k \in UnmarshalKeys : UnmarshalNil(k)
    \/ \E k \in UnmarshalKeys : \E decodeFails \in BOOLEAN : Unmarshal(k, decodeFails)

SpecUnmarshal == Init /\ [][NextUnmarshal]_vars

FileWrites == {<<pJ, 1>>, <<pJ, 2>>, <<pJ, 3>>, <<pJ, 6>>, <<pK, 4>>}

NextFile ==
    \/ \E f \in {pJ, pK} : SetConfigFile(f)
    \/ \E w \in FileWrites : WriteFile(w[1], w[2])
    \/ ReadInConfig
    \/ \E l \in {"KeepLoader", "nil"} : RegisterLoader(<<".", "K">>, l)
    \/ \E a \in Addr : LoaderMutate(a)
    \/ MergeConfigMap(T_ax1)
    \/ \E k \in {kAX, kK} : Get(k)

SpecFile == Init /\ [][NextFile]_vars

FetchKeys ==
    {kA, kAX, kAH0, kAH9, kK, Empty,
     <<"a", ".", "h", ".", "x">>, <<"a", ".", "h", ".", "-", "0">>,
     <<"a", ".", "h", ".", "+", "1">>, <<"a", ".", "h", ".", "0", "1">>,
     <<"a", ".", "h", ".", "-", "1">>, <<"a", ".", "h", ".", "2">>,
     <<"a", ".", "h", ".", "0", ".", "z">>, <<"a", ".", "q">>, <<"a", ".", ".", "h">>,
     <<"k", ".", "x">>, <<"l", ".", "0", ".", "y">>, <<"a", ".", "0", ".", "y">>,
     <<"a", ".", "1">>, <<"a", ".", "y">>, <<"a", ".", "0">>}
FetchTrees == {T_hosts, T_ax1, T_dotted, T_keep}
FetchDefaults ==
    {TInt(8),
     TSeq("smsa", <<TMap("msa", Entry(<<"y">>, TInt(2)))>>),
     TSeq("smaa", <<TMap("maa", Entry(<<"y">>, TInt(2)))>>),
     T_maa.m[StrV(kA)],
     T_mss.m[StrV(kA)],
     TSeq("ss", <<TStr(sU), TStr(sV)>>)}

NextFetch ==
    \/ \E tr \in FetchTrees : MergeConfigMap(tr)
    \/ \E tr \in FetchDefaults : SetDefault(kA, tr)
    \/ \E layer \in {"values", "defaults"} : \E k \in FetchKeys : Fetch(layer, k)

SpecFetch == Init /\ [][NextFetch]_vars

xJSON == <<".", "J", "S", "O", "N">>
xJson == <<"J", "s", "o", "n">>
xDotDot == <<".", ".", "j", "s", "o", "n">>
fZZ == <<"z", "z">>

LoadFormats == {Empty, <<".">>, fJSON, xJSON, xJson, xDotDot, <<".", "K">>, fYAML, fZZ}

NextLoad ==
    \/ \E f \in {pJ, pK} : SetConfigFile(f)
    \/ SetConfigName(kA)
    \/ \E ty \in {xJson, fZZ} : SetConfigType(ty)
    \/ \E w \in {<<pJ, 1>>, <<pJ, 3>>, <<pK, 4>>} : WriteFile(w[1], w[2])
    \/ ReadInConfig
    \/ \E n \in {2, 3} : \E readFails \in BOOLEAN : ReadConfig(Docs[n], readFails)
    \/ RegisterLoader(<<".", "K">>, "KeepLoader")
    \/ MergeConfigMap(T_ax1)

SpecLoad == Init /\ [][NextLoad]_vars

RegistryCalls ==
    {<<xJSON, "fakeLoader">>, <<fJSON, "KeepLoader">>, <<xJson, "nil">>,
     <<Empty, "fakeLoader">>, <<<<".">>, "KeepLoader">>, <<fZZ, "fakeLoader">>}

NextRegistry ==
    \/ SetConfigFile(pJ)
    \/ WriteFile(pJ, 1)
    \/ \E ty \in {xJson, fZZ} : SetConfigType(ty)
    \/ \E r \in RegistryCalls : RegisterLoader(r[1], r[2])
    \/ ReadInConfig
    \/ ReadConfig(Docs[2], FALSE)

SpecRegistry == Init /\ [][NextRegistry]_vars

NextDecode ==
    \/ \E r \in RegistryCalls : RegisterLoader(r[1], r[2])
    \/ \E n \in {1, 3, 5, 6} : \E f \in LoadFormats : Decode(Docs[n], f)

SpecDecode == Init /\ [][NextDecode]_vars

Callbacks == {"nil", "cb1", "cb2"}

\* Two goroutines start and stop the watch of a file that exists and that
\* nothing writes.
InitStart ==
    /\ heap = New(EmptyHeap).h
    /\ conf = New(EmptyHeap).c
    /\ environ = NoBindings
    /\ fs = [p \in {pJ} |-> 1]
    /\ callerData = NilV
    /\ loaderData = NilV
    /\ ret = Void
    /\ registered = <<>>
    /\ watchers = [w \in Watcher |-> FreeWatcher]
    /\ calls = [t \in Caller |-> NoCall]
    /\ mu = Unlocked
    /\ other = NoConfig

NextStart ==
    \/ \E f \in {pJ, Empty} : SetConfigFile(f)
    \/ \E t \in Caller :
          \/ WatchConfigBegin(t)
          \/ WatchConfigNew(t)
          \/ WatchConfigInstall(t)
          \/ WatchConfigStart(t)
          \/ CloseBegin(t)
          \/ CloseWatcher(t)
          \/ CloseWait(t)
    \/ \E w \in Watcher : ListenerClosed(w)

SpecStart == InitStart /\ [][NextStart]_vars

\* One goroutine starts and stops the watch of a file whose content changes.
NextWatch ==
    \/ SetConfigFile(pJ)
    \/ \E n \in {1, 2, 3} : WriteFile(pJ, n)
    \/ Chmod(pJ)
    \/ ReadInConfig
    \/ \E fn \in Callbacks \ {"nil"} : OnConfigChange(fn)
    \/ WatchConfigBegin(1)
    \/ WatchConfigNew(1)
    \/ WatchConfigInstall(1)
    \/ WatchConfigStart(1)
    \/ CloseBegin(1)
    \/ CloseWatcher(1)
    \/ CloseWait(1)
    \/ \E w \in Watcher :
          \/ ListenerReceive(w)
          \/ ListenerReload(w)
          \/ ListenerFetch(w)
          \/ ListenerCall(w)
          \/ ListenerClosed(w)

SpecWatch == Init /\ [][NextWatch]_vars

\* One goroutine starting, stopping and starting the watch again while the
\* file is rewritten with valid documents; only the listener reloads.
NextRestart ==
    \/ SetConfigFile(pJ)
    \/ \E n \in {1, 2} : WriteFile(pJ, n)
    \/ \E fn \in Callbacks \ {"nil"} : OnConfigChange(fn)
    \/ WatchConfigBegin(1)
    \/ WatchConfigNew(1)
    \/ WatchConfigInstall(1)
    \/ WatchConfigStart(1)
    \/ CloseBegin(1)
    \/ CloseWatcher(1)
    \/ CloseWait(1)
    \/ \E w \in Watcher :
          \/ ListenerReceive(w)
          \/ ListenerReload(w)
          \/ ListenerFetch(w)
          \/ ListenerCall(w)
          \/ ListenerClosed(w)

\* The Go scheduler runs a goroutine that can take a step: a listener that
\* has an event to receive, a reload to do, a callback to read or to call,
\* or a closed channel to see, eventually does so.  The weak fairness of
\* ListenerReload(w) is written out, ReloadEnabled(w) being the states in
\* which the step is enabled and Reloaded(w) the steps it takes.
ListenerFair ==
    \A w \in Watcher :
        /\ WF_vars(ListenerReceive(w))
        /\ []<>(~ReloadEnabled(w)) \/ []<><<Reloaded(w)>>_vars
        /\ WF_vars(ListenerFetch(w))
        /\ WF_vars(ListenerCall(w))
        /\ WF_vars(ListenerClosed(w))

SpecRestart == Init /\ [][NextRestart]_vars /\ ListenerFair

\* One goroutine starting and stopping the watch while the file is
\* rewritten and the watcher reports errors.
NextNotice ==
    \/ SetConfigFile(pJ)
    \/ \E n \in {1, 2} : WriteFile(pJ, n)
    \/ OnConfigChange("cb1")
    \/ WatchConfigBegin(1)
    \/ WatchConfigNew(1)
    \/ WatchConfigInstall(1)
    \/ WatchConfigStart(1)
    \/ CloseBegin(1)
    \/ CloseWatcher(1)
    \/ CloseWait(1)
    \/ \E w \in Watcher :
          \/ WatcherError(w)
          \/ ListenerError(w)
          \/ ListenerReceive(w)
          \/ ListenerReload(w)
          \/ ListenerFetch(w)
          \/ ListenerCall(w)
          \/ ListenerClosed(w)

\* The select of the listener takes a ready case: an error that waits is
\* received.
SpecNotice ==
    Init /\ [][NextNotice]_vars /\ ListenerFair /\ \A w \in Watcher : WF_vars(ListenerError(w))

\* The Config after New and SetConfigFile, the file holding a document, and
\* no goroutine in a call.
InitLock ==
    /\ heap = New(EmptyHeap).h
    /\ conf = [New(EmptyHeap).c EXCEPT !.file = pJ]
    /\ environ = NoBindings
    /\ fs = [p \in {pJ} |-> 1]
    /\ callerData = NilV
    /\ loaderData = NilV
    /\ ret = Void
    /\ registered = <<>>
    /\ watchers = [w \in Watcher |-> FreeWatcher]
    /\ calls = [t \in Caller |-> NoCall]
    /\ mu = Unlocked
    /\ other = NoConfig

\* What the first caller calls, and what the second does, beside the
\* rewriting of the file.
FirstCalls == {"SetDefault", "MergeConfigMap", "RegisterLoader", "OnConfigChange",
               "WatchConfig", "Close"}
SecondCalls == {"GetInt", "ReadInConfig"}

\* The steps of the goroutines in their calls.
LockSteps ==
    \E g \in Goroutine :
        \/ Acquire(g)
        \/ InGetInt(g)
        \/ InSetDefault(g)
        \/ InMergeConfigMap(g)
        \/ InRegisterLoader(g)
        \/ InOnConfigChange(g)
        \/ InWatchConfig(g)
        \/ InWatchConfigInstall(g)
        \/ InClose(g)
        \/ InFetch(g)
        \/ InReadInConfig(g)
        \/ MergeKey(g)
        \/ MergeEnd(g)
        \/ Release(g)
        \/ CloseJoin(g)

\* Two callers and the listener: one caller changes the Config and starts
\* and stops the watch, the other reads a key and reloads, and the file is
\* rewritten under them.
NextLock ==
    \/ \E op \in FirstCalls : Call(1, op)
    \/ \E op \in SecondCalls : Call(2, op)
    \/ LockSteps
    \/ ListenerTake
    \/ CallbackCall
    \/ CallbackReturn
    \/ \E n \in {1, 2} : FileWrite(n)

SpecLock == InitLock /\ [][NextLock]_vars

\* The Config with a callback registered that reads and changes it and the
\* watch started: the listener waits for events.
InitCallback ==
    /\ heap = New(EmptyHeap).h
    /\ conf = [New(EmptyHeap).c EXCEPT !.file = pJ, !.onChange = "cb2",
                                       !.watcher = 1, !.watcherDone = 1]
    /\ environ = NoBindings
    /\ fs = [p \in {pJ} |-> 1]
    /\ callerData = NilV
    /\ loaderData = NilV
    /\ ret = Void
    /\ registered = <<>>
    /\ watchers = [w \in Watcher |-> FreeWatcher]
    /\ calls = [t \in Caller |-> NoCall]
    /\ mu = [Unlocked EXCEPT !.open = TRUE, !.g[Listener].pc = "select"]
    /\ other = NoConfig

\* The callers read a key again and again while the file is rewritten and
\* the listener reloads it and runs the callback.
NextCallback ==
    \/ \E g \in Caller : Call(g, "GetInt")
    \/ \E g \in Goroutine :
          \/ Acquire(g)
          \/ InGetInt(g)
          \/ InSetDefault(g)
          \/ InMergeConfigMap(g)
          \/ InFetch(g)
          \/ InReadInConfig(g)
          \/ MergeKey(g)
          \/ MergeEnd(g)
          \/ Release(g)
    \/ ListenerTake
    \/ CallbackCall
    \/ CallbackReturn
    \/ \E n \in {1, 2} : FileWrite(n)

\* The goroutine has a step to take: it is in a section or at its end, or in
\* the callback, or at Lock or RLock with the lock to be had.
Ready(g) ==
    \/ mu.g[g].pc \in {"busy", "merge", "done", "call"}
    \/ /\ mu.g[g].pc = "wait"
       /\ IF mu.g[g].op \in LockOps THEN mu.w = 0 /\ mu.r = {} ELSE mu.w = 0 /\ mu.q = {}

\* The goroutine takes a step.
Moved(g) == mu'.g[g] # mu.g[g]

\* The Go scheduler: a goroutine that can run does run.  The weak fairness
\* of the steps of each goroutine is written out.
GoroutinesFair == \A g \in Goroutine : []<>(~Ready(g)) \/ []<><<Ready(g) /\ Moved(g)>>_vars

SpecCallback == InitCallback /\ [][NextCallback]_vars /\ GoroutinesFair


(***************************************************************************)
(* Claims about resolution, checked under SpecResolve                      *)
(***************************************************************************)
\* The environment variable of a key: its binding, else the derived name.
\* Written out character by character, apart from getEnv.
IsEnvNameOf(name, key) ==
    IF key \in DOMAIN conf.envBindings THEN name = conf.envBindings[key]
    ELSE LET off == IF conf.envPrefix = Empty THEN 0 ELSE Len(conf.envPrefix) + 1
         IN  /\ Len(name) = off + Len(key)
             /\ \A i \in 1..Len(key) :
                    name[off + i] = IF key[i] = "." THEN "_" ELSE ToUpperChar(key[i])
             /\ off > 0 =>
                    /\ \A i \in 1..Len(conf.envPrefix) : name[i] = conf.envPrefix[i]
                    /\ name[off] = "_"

EnvSet(key) == \E n \in DOMAIN environ : IsEnvNameOf(n, key)
EnvValue(key) == environ[CHOOSE n \in DOMAIN environ : IsEnvNameOf(n, key)]

InValues(key) == fetchValue(heap, conf.values, key)
InDefaults(key) == fetchValue(heap, conf.defaults, key)

C2_AutomaticEnvWins ==
    (ret.op = "get" /\ conf.automatic /\ EnvSet(ret.key)) =>
        ret.ok /\ ret.v = TStr(EnvValue(ret.key))

\* A read of the nested key a.x, which values holds as 1, answered by P_A_X.
C2_Witness ==
    /\ ret.op = "get" /\ conf.automatic /\ ret.key = kAX
    /\ conf.envPrefix = <<"P">> /\ kAX \notin DOMAIN conf.envBindings
    /\ ePAX \in DOMAIN environ
    /\ InValues(kAX).ok /\ Deep(heap, InValues(kAX).v) = TInt(1)
    /\ ret.v = TStr(<<"e">>)

C4_DerivedEnvName ==
    (/\ ret.op = "get"
     /\ ret.key \notin DOMAIN conf.envBindings
     /\ looksUpEnv(heap, conf, ret.key))
    => /\ IsEnvNameOf(ret.env, ret.key)
       /\ ret.env = (IF conf.envPrefix = Empty THEN <<>> ELSE conf.envPrefix \o <<"_">>)
                    \o [i \in 1..Len(ret.key) |->
                           IF ret.key[i] = "." THEN "_" ELSE ToUpperChar(ret.key[i])]

\* A read of a.x under prefix P that looked up P_A_X and found it.
C4_Witness ==
    /\ ret.op = "get" /\ ret.key = kAX /\ kAX \notin DOMAIN conf.envBindings
    /\ conf.envPrefix = <<"P">>
    /\ ret.env = ePAX /\ ePAX \in DOMAIN environ
    /\ ret.ok /\ ret.v = TStr(<<"e">>)

(***************************************************************************)
(* Claims about loading and merging, checked under SpecFile and SpecMerge  *)
(***************************************************************************)
\* The normalized form of a tree: every map string-keyed, every slice of
\* maps a plain slice, at every depth.
RECURSIVE NormTree(_)
NormTree(tr) ==
    IF tr.t = "msa" THEN TMap("msa", [k \in DOMAIN tr.m |-> NormTree(tr.m[k])])
    ELSE IF tr.t = "maa" THEN
        TMap("msa", [s \in {StrV(Sprint(k)) : k \in DOMAIN tr.m} |->
                        NormTree(tr.m[CHOOSE k \in DOMAIN tr.m : StrV(Sprint(k)) = s])])
    ELSE IF tr.t \in {"sa", "smsa", "smaa"} THEN
        TSeq("sa", [i \in DOMAIN tr.e |-> NormTree(tr.e[i])])
    ELSE tr

EmptyTree == TMap("msa", EmptyMap)

\* The content a document gives values when it is read.
Content(doc) == IF doc.tree.t = "nil" THEN EmptyTree ELSE NormTree(doc.tree)

\* The reference deep merge of two string-keyed mappings.
RECURSIVE RefMerge(_, _)
RefMerge(d, s) ==
    TMap("msa", [k \in (DOMAIN d.m) \cup (DOMAIN s.m) |->
        IF k \notin DOMAIN s.m THEN d.m[k]
        ELSE IF k \notin DOMAIN d.m THEN s.m[k]
        ELSE IF d.m[k].t = "msa" /\ s.m[k].t = "msa" THEN RefMerge(d.m[k], s.m[k])
        ELSE s.m[k]])

\* new keeps every path of old that inc does not mention, below the
\* mappings that old and inc both hold.
RECURSIVE Frame(_, _, _)
Frame(old, inc, new) ==
    /\ new.t = "msa"
    /\ \A k \in DOMAIN old.m :
          IF k \notin DOMAIN inc.m
          THEN k \in DOMAIN new.m /\ new.m[k] = old.m[k]
          ELSE (old.m[k].t = "msa" /\ inc.m[k].t = "msa") =>
                   k \in DOMAIN new.m /\ Frame(old.m[k], inc.m[k], new.m[k])

Incoming == IF ret.arg.t = "nil" THEN EmptyTree ELSE NormTree(ret.arg)
Merged == ret.op \in {"MergeConfigMap", "ReadConfig"} /\ ret.ok
Now == Deep(heap, conf.values)

\* C5: after a successful ReadInConfig of a file, values is exactly the
\* normalized content of the file: keys of the earlier values that the file
\* lacks are gone, keys it holds have its values.
C5_ReloadReplaces ==
    (ret.op = "ReadInConfig" /\ ret.ok /\ conf.file # Empty) =>
        /\ Now = Content(Docs[fs[conf.file]])
        /\ \A k \in DOMAIN ret.before.m :
              k \notin DOMAIN Content(Docs[fs[conf.file]]).m => k \notin DOMAIN Now.m

\* A reread of a file that dropped the key r and changed k from 1 to 3.
C5_Witness ==
    /\ ret.op = "ReadInConfig" /\ ret.ok
    /\ ret.before = T_kr
    /\ Now = T_k3

\* C6: after MergeConfigMap or ReadConfig succeeds, every path of values
\* that the incoming data does not mention keeps its previous value.
C6_MergeIsAdditive == Merged => Frame(ret.before, Incoming, Now)

\* A ReadConfig of {a: {1: u, y: 2}} into {a: {x: 1}}: a.x stays.
C6_Witness ==
    /\ ret.op = "ReadConfig" /\ ret.ok
    /\ ret.before = T_ax1 /\ ret.arg = T_maa
    /\ StrV(<<"x">>) \in DOMAIN Now.m[StrV(kA)].m
    /\ Now.m[StrV(kA)].m[StrV(<<"x">>)] = TInt(1)
    /\ Now.m[StrV(kA)].m[StrV(<<"y">>)] = TInt(2)

\* C7: the merge equals the reference deep merge: src entries are adopted,
\* two string-keyed mappings merge recursively, anything else is replaced
\* wholesale by the src value, entries only in dst are kept.
C7_MergeMatchesReference ==
    Merged =>
        /\ Now = RefMerge(ret.before, Incoming)
        /\ (ret.before = T_ax1 /\ ret.arg = T_ay2) =>
               Now = TMap("msa", Entry(kA, TMap("msa", Entries2(<<"x">>, TInt(1), <<"y">>, TInt(2)))))
        /\ (ret.before = T_ax1 /\ ret.arg = T_as) => Now = T_as
        /\ (ret.before = T_hosts /\ ret.arg = T_ahw) =>
               Now.m[StrV(kA)].m[StrV(<<"h">>)] = TSeq("sa", <<TStr(<<"w">>)>>)

\* A merge of {a: {h: [w]}} into {a: {h: [u, v]}, k: 1}: the sequence is
\* replaced, not concatenated, and k is kept.
C7_Witness ==
    /\ ret.op = "MergeConfigMap"
    /\ ret.before = T_hosts /\ ret.arg = T_ahw
    /\ Now = TMap("msa", Entries2(kA, TMap("msa", Entry(<<"h">>, TSeq("sa", <<TStr(<<"w">>)>>))),
                                  kK, TInt(1)))

\* C8: a change the caller makes to the map it passed to MergeConfigMap, or
\* to a map or slice inside it, leaves the stored values unchanged.
C8_CallerMutationInvisible == (ret.op = "CallerMutate") => Now = ret.before

\* C9: values shares no map or slice with the map a loader returned, and a
\* change the loader makes to that map leaves the stored values unchanged.
C9_NoSharingWithLoader ==
    /\ Reach(heap, conf.values) \cap Reach(heap, loaderData) = {}
    /\ (ret.op = "LoaderMutate") => Now = ret.before

(***************************************************************************)
(* Claims about fetchValue, checked under SpecFetch                        *)
(***************************************************************************)
\* parts joined by "."
RECURSIVE JoinDots(_)
JoinDots(parts) ==
    IF Len(parts) = 1 THEN parts[1] ELSE parts[1] \o <<".">> \o JoinDots(Tail(parts))

\* The segments of a key: the only sequence of dot-free strings that joined
\* by "." gives the key.
IsSegmentsOf(parts, key) ==
    /\ Len(parts) >= 1
    /\ \A n \in DOMAIN parts : \A i \in DOMAIN parts[n] : parts[n][i] # "."
    /\ JoinDots(parts) = key

\* seg is a decimal integer, with an optional sign, of value n.
Denotes(seg, n) ==
    \E digits \in {seg} \cup (IF Len(seg) > 0 /\ seg[1] \in {"+", "-"} THEN {Tail(seg)} ELSE {}) :
        /\ Len(digits) > 0
        /\ \A i \in DOMAIN digits : digits[i] \in DigitChars
        /\ n = (IF digits # seg /\ seg[1] = "-" THEN 0 - 1 ELSE 1) * DigitsVal(digits, 0)

\* The walk of the claim, on the content of the mapping: a mapping is looked
\* up by key (map[string]any, map[string]string, map[any]any under the
\* segment as a string), a sequence by index ([]any, []map[string]any,
\* []map[any]any); any other node with segments remaining is not found.
RECURSIVE WalkRef(_, _)
WalkRef(node, parts) ==
    IF parts = <<>> THEN [ok |-> TRUE, v |-> node]
    ELSE IF node.t \in {"msa", "mss", "maa"} THEN
        IF StrV(Head(parts)) \in DOMAIN node.m
        THEN WalkRef(node.m[StrV(Head(parts))], Tail(parts))
        ELSE [ok |-> FALSE, v |-> TNil]
    ELSE IF node.t \in {"sa", "smsa", "smaa"} THEN
        IF \E n \in 0..(Len(node.e) - 1) : Denotes(Head(parts), n)
        THEN WalkRef(node.e[1 + CHOOSE n \in 0..(Len(node.e) - 1) : Denotes(Head(parts), n)],
                     Tail(parts))
        ELSE [ok |-> FALSE, v |-> TNil]
    ELSE [ok |-> FALSE, v |-> TNil]

Fetched == ret.op \in {"fetchValue(values)", "fetchValue(defaults)"}
FetchRoot ==
    IF ret.op = "fetchValue(values)" THEN Deep(heap, conf.values) ELSE Deep(heap, conf.defaults)

\* C10: with no exact top-level entry for the key, fetchValue splits the key
\* on "." and walks: a mapping by key, a sequence by an integer index within
\* 0 <= index < length; a missing key, an unparsable or out-of-range index,
\* or a node that is neither with segments remaining gives not found.
C10_FetchWalksSegments ==
    (Fetched /\ StrV(ret.key) \notin DOMAIN FetchRoot.m) =>
        /\ IsSegmentsOf(Split(ret.key, "."), ret.key)
        /\ ret.ok = WalkRef(FetchRoot, Split(ret.key, ".")).ok
        /\ ret.v = WalkRef(FetchRoot, Split(ret.key, ".")).v
        /\ (FetchRoot = T_hosts /\ ret.key = kAH0) => (ret.ok /\ ret.v = TStr(sU))
        /\ (FetchRoot = T_hosts /\ ret.key = kAH9) => ~ret.ok

\* a.h.0 fetched from {a: {h: [u, v]}, k: 1}.
C10_Witness ==
    /\ ret.op = "fetchValue(values)" /\ ret.key = kAH0
    /\ FetchRoot = T_hosts
    /\ ret.ok /\ ret.v = TStr(sU)

\* C11: when the mapping holds a top-level entry whose key is the whole
\* dotted string, fetchValue returns that entry's value, also when the
\* segments of the key lead to another value through nested mappings.
C11_ExactMatchWins ==
    (Fetched /\ StrV(ret.key) \in DOMAIN FetchRoot.m) =>
        ret.ok /\ ret.v = FetchRoot.m[StrV(ret.key)]

\* a.x fetched from {a.x: 5, a: {x: 1}}: the answer is 5, not 1.
C11_Witness ==
    /\ ret.op = "fetchValue(values)" /\ ret.key = kAX
    /\ StrV(kAX) \in DOMAIN FetchRoot.m
    /\ WalkRef(FetchRoot, <<kA, <<"x">> >>).ok
    /\ WalkRef(FetchRoot, <<kA, <<"x">> >>).v = TInt(1)
    /\ ret.ok /\ ret.v = TInt(5)

(***************************************************************************)
(* Claims about loading errors and the loader registry, checked under      *)
(* SpecLoad and SpecRegistry                                               *)
(***************************************************************************)
\* C12: when ReadInConfig or ReadConfig returns an error, whichever it is,
\* values is what it was before the call.
C12_FailedLoadKeepsValues ==
    (ret.op \in {"ReadInConfig", "ReadConfig"} /\ ~ret.ok) =>
        /\ Now = ret.before
        /\ ret.err \in {"file does not exist", "read error", "unsupported config file type",
                        "decode error", "config type not set"}

\* A ReadInConfig whose loader failed on the file, with {a: {x: 1}} stored.
C12_Witness ==
    /\ ret.op = "ReadInConfig" /\ ret.err = "decode error"
    /\ ret.before = T_ax1 /\ Now = T_ax1

\* A format identifier as the registry keys it: lowercased, with one
\* leading dot stripped.  Written out character by character.
NormId(s) ==
    LET off == IF Len(s) > 0 /\ s[1] = "." THEN 1 ELSE 0
    IN  [i \in 1..(Len(s) - off) |-> ToLowerChar(s[i + off])]

\* The document a decode was given.
DecodedDoc == [syntax |-> ret.note, tree |-> ret.arg, text |-> ret.env]

\* What the loader returns for the document: its error, and the content of
\* its mapping.
LoaderResult(loader, doc) ==
    [err |-> Load(EmptyHeap, loader, doc).err,
     tree |-> Deep(Load(EmptyHeap, loader, doc).h, Load(EmptyHeap, loader, doc).v)]

\* C13: decodeConfig fails with the unsupported-format error exactly when
\* the normalized format is empty or has no registered loader; otherwise it
\* invokes that loader once, and returns the loader's error if it failed,
\* else the loader's mapping normalized.
C13_DecodeOutcome ==
    (ret.op = "decodeConfig") =>
        LET f == NormId(ret.key)
        IN  IF f = Empty \/ f \notin DOMAIN conf.loaders
            THEN ret.err = "unsupported config file type" /\ ret.loaded = <<>>
            ELSE LET l == LoaderResult(conf.loaders[f], DecodedDoc)
                 IN  /\ ret.err # "unsupported config file type"
                     /\ ret.loaded = <<conf.loaders[f]>>
                     /\ ret.err = l.err
                     /\ ret.ok => ret.v = NormTree(l.tree)
                     /\ ~ret.ok => ret.v = TNil

\* A decode of the YAML document {a: {1: u, y: 2}} under the format "yaml":
\* the YAML loader ran once and its mapping came back string-keyed.
C13_Witness ==
    /\ ret.op = "decodeConfig" /\ ret.key = fYAML /\ ret.arg = T_maa
    /\ ret.ok /\ ret.loaded = <<"YAMLLoader">>
    /\ ret.v = TMap("msa", Entry(kA, TMap("msa", Entries2(<<"1">>, TStr(sU), <<"y">>, TInt(2)))))

\* The calls made so far that registered a loader for the identifier f.
RegistrationsOf(f) ==
    {i \in DOMAIN registered :
        /\ NormId(registered[i][1]) = f /\ f # Empty
        /\ registered[i][2] # "nil"}

\* The loader registered last for f: that of the latest such call, else the
\* default loader of f, else none.
LastLoader(f) ==
    IF RegistrationsOf(f) # {}
    THEN registered[CHOOSE i \in RegistrationsOf(f) : \A j \in RegistrationsOf(f) : j <= i][2]
    ELSE IF f \in DOMAIN defaultLoaders THEN defaultLoaders[f]
    ELSE "nil"

\* The last call was a read that got as far as decoding, and the format it
\* decoded under.
ReadDecoded ==
    \/ ret.op = "ReadInConfig" /\ conf.file # Empty /\ ret.err # "file does not exist"
    \/ ret.op = "ReadConfig" /\ ret.err \notin {"config type not set", "read error"}

ReadFormat == IF ret.op = "ReadInConfig" THEN NormId(Ext(conf.file)) ELSE NormId(conf.cfgType)

\* C14: a decode made by ReadInConfig (format from the file extension) or by
\* ReadConfig (format from SetConfigType) invokes the loader registered last
\* for that format, a default loader only when no call replaced it; it is
\* unsupported only when no loader was ever registered for the format.
C14_LastRegistrationWins ==
    ReadDecoded =>
        IF LastLoader(ReadFormat) = "nil"
        THEN ret.err = "unsupported config file type" /\ ret.loaded = <<>>
        ELSE ret.loaded = <<LastLoader(ReadFormat)>>

\* A ReadInConfig of a.json after "json" was given to KeepLoader and then
\* ".JSON" to fakeLoader: fakeLoader decoded the file.
C14_Witness ==
    /\ ret.op = "ReadInConfig" /\ ret.ok /\ conf.file = pJ
    /\ registered = << <<fJSON, "KeepLoader">>, <<xJSON, "fakeLoader">> >>
    /\ ret.loaded = <<"fakeLoader">>
    /\ Now = TMap("msa", Entry(<<"r", "a", "w">>, TStr(<<"1">>)))

\* C15: a RegisterLoader call whose extension normalizes to the empty
\* string, or whose loader is nil, leaves the registry as it was; any other
\* call sets the entry at the normalized identifier to the loader and
\* leaves every other entry, and every other field of the store, as it
\* was.  ".JSON", "json" and "Json" normalize to the one identifier "json".
C15_RegisterSetsOneEntry ==
    [][(ret'.op = "RegisterLoader" /\ registered' # registered) =>
          LET f == NormId(ret'.key)
          IN  /\ conf' = [conf EXCEPT !.loaders = conf'.loaders]
              /\ IF f = Empty \/ ret'.note = "nil"
                 THEN conf'.loaders = conf.loaders
                 ELSE /\ DOMAIN conf'.loaders = (DOMAIN conf.loaders) \cup {f}
                      /\ conf'.loaders[f] = ret'.note
                      /\ \A g \in (DOMAIN conf.loaders) \ {f} :
                             conf'.loaders[g] = conf.loaders[g]
              /\ NormId(xJSON) = fJSON /\ NormId(fJSON) = fJSON /\ NormId(xJson) = fJSON
      ]_vars

\* RegisterLoader(".JSON", fakeLoader) has replaced the entry "json" and
\* added no entry ".JSON".
C15_Witness ==
    /\ ret.op = "RegisterLoader" /\ ret.key = xJSON /\ ret.note = "fakeLoader"
    /\ conf.loaders[fJSON] = "fakeLoader"
    /\ DOMAIN conf.loaders = DOMAIN defaultLoaders

(***************************************************************************)
(* Claims about the watch, checked under SpecStart and SpecWatch           *)
(***************************************************************************)
Open == {w \in Watcher : watchers[w].state = "open"}
Listeners == {w \in Watcher : Alive(watchers, w)}
ClosingCalls(w) == {t \in Caller : calls[t].op = "Close" /\ calls[t].w = w}

\* The installed handle is an open watcher, and every other open watcher is
\* one that a WatchConfig call has created and not yet installed or closed,
\* or one that a Close call has taken out and not yet closed.
OneHandle ==
    /\ conf.watcher # 0 => conf.watcher \in Open /\ conf.watcherDone = conf.watcher
    /\ \A w \in Open \ {conf.watcher} :
          \E t \in Caller : calls[t].w = w /\ calls[t].pc \in {"install", "closing"}

\* Every running listener is that of the installed handle, or that of a
\* handle a Close call in progress has taken out.
OneListener == \A w \in Listeners : conf.watcher = w \/ ClosingCalls(w) # {}

\* A handle is installed only where there was none.  A WatchConfig that
\* finds a handle installed at its first look returns nil and changes
\* nothing; one that finds it at its second look returns nil, leaves the
\* handle and the listeners as they were and closes the watcher it created.
KeepsHandle ==
    /\ (conf'.watcher # conf.watcher /\ conf'.watcher # 0) => conf.watcher = 0
    /\ \A t \in Caller :
          (calls[t] = NoCall /\ calls'[t].op = "WatchConfig") => conf.watcher = 0
    /\ (ret'.op = "WatchConfig" /\ ret'.line = 425 /\ ret' # ret)
       => /\ conf.watcher # 0 /\ ret'.ok
          /\ conf' = conf /\ watchers' = watchers /\ calls' = calls
    /\ \A t \in Caller :
          (calls[t].pc = "install" /\ conf.watcher # 0 /\ calls'[t] # calls[t])
          => /\ calls'[t] = NoCall
             /\ ret'.op = "WatchConfig" /\ ret'.ok /\ ret'.line \in {440, 445}
             /\ conf' = conf
             /\ {w \in Watcher : Alive(watchers', w)} = Listeners
             /\ watchers'[calls[t].w].state # "open"

\* C16: a store has at most one installed watch handle; WatchConfig called
\* while a watch is active returns success without replacing the handle or
\* starting a second listener, also when two WatchConfig calls race: the
\* loser closes the watcher it created.
C16_AtMostOneWatch == [](OneHandle /\ OneListener) /\ [][KeepsHandle]_vars

\* The loser of a race of two WatchConfig calls has returned nil: the
\* winner's handle is installed and is the only watcher left.
C16_Witness ==
    /\ ret.op = "WatchConfig" /\ ret.line = 445 /\ ret.ok
    /\ conf.watcher # 0
    /\ {w \in Watcher : watchers[w].state # "free"} = {conf.watcher}

\* The listener is between events: it has dealt with the last one it took.
Settled(w) == watchers[w].pc \in {"select", "exited"}

\* C17: for the event a listener took last, the callback ran at most once,
\* and only after the reload for that event had succeeded; once the
\* listener has dealt with an event whose reload succeeded the callback
\* registered then has run exactly once (never, if none was registered);
\* for an event that is no write, or whose reload failed, it has not run.
C17_OneCallbackPerReload ==
    \A w \in Watcher :
        watchers[w].state # "free" =>
            /\ watchers[w].invoked <= 1
            /\ watchers[w].reload # "ok" => watchers[w].invoked = 0
            /\ watchers[w].pc \in {"fetch", "call"} =>
                   watchers[w].reload = "ok" /\ watchers[w].invoked = 0
            /\ (Settled(w) /\ watchers[w].reload = "ok") =>
                   /\ watchers[w].invoked = IF watchers[w].callback = "nil" THEN 0 ELSE 1
                   /\ ~watchers[w].cbChanged => watchers[w].callback = conf.onChange

\* A listener has dealt with a write of {k: 3}: the reload succeeded and
\* cb1, the callback registered, ran once.
C17_Witness ==
    \E w \in Watcher :
        /\ watchers[w].state = "open" /\ watchers[w].pc = "select"
        /\ watchers[w].reload = "ok" /\ watchers[w].invoked = 1
        /\ watchers[w].callback = "cb1" /\ conf.onChange = "cb1"
        /\ Now = T_k3

\* C18: a reload that fails leaves values as it was and the listener
\* waiting for the next event, the handle installed, the watcher open and
\* nothing queued for a retry; the callback does not run for that event.  A
\* later reload that succeeds gives values the content of the file, and the
\* callback then runs once (C17).
C18_FailedReloadKeepsWatch ==
    [][\A w \in Watcher :
          Reloaded(w) =>
             IF watchers'[w].reload = "failed"
             THEN /\ Deep(heap', conf'.values) = Now
                  /\ watchers'[w].pc = "select"
                  /\ watchers'[w].invoked = 0
                  /\ watchers'[w].state = watchers[w].state
                  /\ watchers'[w].events = watchers[w].events
                  /\ watchers'[w].done = watchers[w].done
                  /\ conf'.watcher = conf.watcher
             ELSE /\ watchers'[w].reload = "ok"
                  /\ watchers'[w].pc = "fetch"
                  /\ Deep(heap', conf'.values) = Content(Docs[fs[conf'.file]])
      ]_vars

\* A listener whose reload had failed has since dealt with a valid write:
\* values holds {k: 3} and cb1 ran once for it.
C18_Witness ==
    \E w \in Watcher :
        /\ watchers[w].state = "open" /\ conf.watcher = w
        /\ watchers[w].failed
        /\ watchers[w].pc = "select" /\ watchers[w].reload = "ok"
        /\ watchers[w].invoked = 1 /\ watchers[w].callback = "cb1"
        /\ fs[pJ] = 2 /\ Now = T_k3

\* C19: a listener is running only while its handle is installed or a
\* Close call that took the handle out has not returned; so once Close has
\* returned, and until WatchConfig is called again, no listener is left to
\* reload or to run the callback, whatever is written.
C19_CloseWaitsForListener ==
    /\ \A w \in Watcher : Alive(watchers, w) => conf.watcher = w \/ ClosingCalls(w) # {}
    /\ (ret.op = "Close" /\ ret.line = 502 /\ \A t \in Caller : calls[t] = NoCall)
       => conf.watcher = 0 /\ Listeners = {}

\* Close has returned after being called while the listener was in a reload
\* or about to run the callback: no listener is left.
C19_Witness ==
    /\ ret.op = "Close" /\ ret.line = 502
    /\ ret.note \in {"reload", "fetch", "call"}
    /\ \A t \in Caller : calls[t] = NoCall
    /\ conf.watcher = 0 /\ Listeners = {}

\* The watch w was started by a WatchConfig called right after a Close
\* returned.
Fresh(w) == watchers[w].state # "free" /\ watchers[w].fresh

\* A WatchConfig called right after Close returned has returned nil from
\* line 483: its watcher is installed and open, watches the file, and its
\* listener runs.
Restarted ==
    (/\ ret.op = "WatchConfig" /\ ret.note = "afterClose" /\ ret.line = 483 /\ ret.ok
     /\ calls[1] = NoCall)
    => /\ conf.watcher # 0
       /\ Fresh(conf.watcher)
       /\ watchers[conf.watcher].state = "open"
       /\ Alive(watchers, conf.watcher)
       /\ conf.file \in watchers[conf.watcher].paths

\* A WatchConfig called right after Close returned finds no handle: it
\* returns at once only when no file is set.
RestartGoesOn ==
    (/\ ret.op = "Close" /\ ret.line = 502 /\ calls[1] = NoCall
     /\ ret'.op = "WatchConfig" /\ ret' # ret)
    => ret'.line = 421 /\ conf.file = Empty

\* What the listener of a watch started again does with a write event: the
\* reload gives values the content of the file, values stays so until the
\* callback has run, and the callback that runs is the one registered,
\* once.
RestartedListener ==
    \A w \in Watcher :
        Fresh(w) =>
            /\ Reloaded(w) => /\ watchers'[w].reload = "ok"
                              /\ Deep(heap', conf'.values) = Content(Docs[fs[conf'.file]])
            /\ watchers[w].pc \in {"fetch", "call"} => Deep(heap', conf'.values) = Now
            /\ (watchers[w].pc = "fetch" /\ watchers'[w].pc # "fetch")
               => watchers'[w].callback = conf.onChange
            /\ (watchers[w].pc = "call" /\ watchers'[w].pc # "call")
               => watchers'[w].invoked = 1 /\ watchers'[w].callback # "nil"

\* A write event waiting at the listener of a watch started again is
\* received unless the watch is closed first, and an event received is
\* dealt with to the end: reload, then the callback once if one is
\* registered.
RestartedProgress ==
    \A w \in Watcher :
        /\ (Fresh(w) /\ watchers[w].pc = "select" /\ watchers[w].events # <<>>)
           ~> (watchers[w].pc = "reload" \/ watchers[w].state # "open")
        /\ (Fresh(w) /\ watchers[w].pc = "reload")
           ~> (/\ Settled(w) /\ watchers[w].reload = "ok"
               /\ watchers[w].invoked = IF watchers[w].callback = "nil" THEN 0 ELSE 1)

\* C20: a WatchConfig called after Close has returned installs a new open
\* watcher on the file with a running listener; a write event that reaches
\* it is reloaded, values takes the content of the file, and the callback
\* registered at that time runs exactly once.
C20_RestartAfterClose ==
    /\ []Restarted
    /\ [][RestartGoesOn /\ RestartedListener]_vars
    /\ RestartedProgress

\* On a watch started after a Close, with cb2 registered in place of cb1,
\* the listener has reloaded a write of {k: 3} and run cb2 once.
C20_Witness ==
    \E w \in Watcher :
        /\ Fresh(w) /\ conf.watcher = w /\ watchers[w].state = "open"
        /\ watchers[w].pc = "select" /\ watchers[w].reload = "ok"
        /\ watchers[w].invoked = 1 /\ watchers[w].callback = "cb2"
        /\ conf.onChange = "cb2"
        /\ fs[pJ] = 2 /\ Now = T_k3

(***************************************************************************)
(* Claims about bound variables, checked under SpecResolve                 *)
(***************************************************************************)
\* The name getEnv derives for a key that has no binding.
DerivedName(key) ==
    (IF conf.envPrefix = Empty THEN <<>> ELSE conf.envPrefix \o <<"_">>)
    \o ToUpper(ReplaceAll(key, ".", "_"))

\* C28: a read of a key that BindEnv bound looks up the bound name and no
\* other: the name carries no envPrefix, and when the bound variable is
\* unset the read is answered by values, then defaults, else not found,
\* whether or not the variable of the derived name is set.
C28_BoundNameOnly ==
    (ret.op = "get" /\ ret.key \in DOMAIN conf.envBindings) =>
        /\ looksUpEnv(heap, conf, ret.key) => ret.env = conf.envBindings[ret.key]
        /\ conf.envBindings[ret.key] \notin DOMAIN environ =>
               IF InValues(ret.key).ok
               THEN ret.ok /\ ret.v = Deep(heap, InValues(ret.key).v)
               ELSE /\ ret.ok = InDefaults(ret.key).ok
                    /\ ret.v = Deep(heap, InDefaults(ret.key).v)
        /\ (conf.envBindings[ret.key] \in DOMAIN environ
            /\ (conf.automatic \/ ~InValues(ret.key).ok)) =>
               ret.ok /\ ret.v = TStr(environ[conf.envBindings[ret.key]])

\* a.x is bound to X, the prefix is P, X is unset and P_A_X, the derived
\* name, is set: a read of a.x in automatic mode looked up X and found the
\* key nowhere.
C28_Witness ==
    /\ ret.op = "get" /\ ret.key = kAX
    /\ kAX \in DOMAIN conf.envBindings /\ conf.envBindings[kAX] = eX
    /\ conf.envPrefix = <<"P">> /\ conf.automatic
    /\ eX \notin DOMAIN environ
    /\ DerivedName(kAX) = ePAX /\ ePAX \in DOMAIN environ
    /\ ret.env = eX /\ ~ret.ok

(***************************************************************************)
(* Claims about watcher errors, checked under SpecNotice                   *)
(***************************************************************************)
\* The step in which the listener w receives a watcher error.
ErrorReceived(w) ==
    /\ watchers[w].pc = "select" /\ watchers[w].errors
    /\ watchers'[w].state # "free" /\ ~watchers'[w].errors

\* C24: the step in which the listener receives a watcher error changes
\* nothing of the store (values, defaults, every other field, the handle),
\* runs no callback, and leaves the listener at its select with the
\* watcher as it was, its events still queued and done open; a write event
\* that waits at a listener that has received an error is received unless
\* the watch is closed first, and then handled to the end.
C24_WatcherErrorIsHarmless ==
    /\ [][\A w \in Watcher :
             ErrorReceived(w) =>
                 /\ heap' = heap /\ conf' = conf
                 /\ watchers'[w] = [watchers[w] EXCEPT !.errors = FALSE, !.erred = TRUE]
                 /\ \A v \in Watcher \ {w} : watchers'[v] = watchers[v]
         ]_vars
    /\ \A w \in Watcher :
          /\ (watchers[w].erred /\ watchers[w].pc = "select" /\ watchers[w].events # <<>>)
             ~> (watchers[w].pc = "reload" \/ watchers[w].state # "open")
          /\ (watchers[w].erred /\ watchers[w].pc = "reload") ~> Settled(w)

\* A listener that received a watcher error has since reloaded a write of
\* {k: 3} and run the callback once; the watch is still installed.
C24_Witness ==
    \E w \in Watcher :
        /\ watchers[w].erred /\ conf.watcher = w /\ watchers[w].state = "open"
        /\ watchers[w].pc = "select" /\ watchers[w].reload = "ok"
        /\ watchers[w].invoked = 1 /\ watchers[w].callback = "cb1"
        /\ fs[pJ] = 2 /\ Now = T_k3

(***************************************************************************)
(* Claims about the shape of values, checked under SpecNormal              *)
(***************************************************************************)
\* Every map of the tree has string keys only and is a map[string]any or a
\* map[string]string, every slice is a []any or a []string.
RECURSIVE StringKeyed(_)
StringKeyed(tr) ==
    IF tr.t \in MapKinds
    THEN /\ tr.t \in {"msa", "mss"}
         /\ \A k \in DOMAIN tr.m : k.t = "string" /\ StringKeyed(tr.m[k])
    ELSE IF tr.t \in SeqKinds
    THEN /\ tr.t \in {"sa", "ss", "si"}
         /\ \A i \in DOMAIN tr.e : StringKeyed(tr.e[i])
    ELSE TRUE

\* C29: after any sequence of ReadInConfig, ReadConfig and MergeConfigMap
\* calls every map reachable in values, at every depth and inside slices,
\* has string keys, and every slice of maps has become a plain slice.
C29_ValuesStringKeyed == StringKeyed(Now)

(***************************************************************************)
(* Claims about the typed getters, checked under SpecTyped                 *)
(***************************************************************************)
\* Whether a number found in the store is zero.
IsNumber(tr) == tr.t \in {"int", "int64", "float64"}
NumberIsZero(tr) == IF tr.t = "float64" THEN FloatIsZero(tr.s) ELSE tr.i = 0

\* C30: GetBool returns true for every nonzero number it resolves and false
\* for zero, whether the number is an int, an int64 or a float64, and for
\* a bool it returns the bool.
C30_GetBoolOfNumbers ==
    (ret.op = "GetBool" /\ ret.ok) =>
        /\ IsNumber(ret.arg) => ret.v = TBool(~NumberIsZero(ret.arg))
        /\ ret.arg.t = "bool" => ret.v = ret.arg

\* The typed getters and the zero value or empty container of each.
TypedOps ==
    {"GetString", "GetInt", "GetBool", "GetFloat64", "GetDuration", "GetStringSlice",
     "GetIntSlice", "GetStringMap", "GetStringMapString", "GetStringMapStringSlice"}

ZeroOf(op) ==
    CASE op = "GetString" -> TStr(<<>>)
      [] op = "GetInt" -> TInt(0)
      [] op = "GetBool" -> TBool(FALSE)
      [] op = "GetFloat64" -> TFloat(<<"0">>)
      [] op = "GetDuration" -> TDuration(0)
      [] op = "GetStringSlice" -> TSeq("ss", <<>>)
      [] op = "GetIntSlice" -> TSeq("si", <<>>)
      [] op = "GetStringMap" -> TMap("msa", EmptyMap)
      [] op = "GetStringMapString" -> TMap("mss", EmptyMap)
      [] op = "GetStringMapStringSlice" -> TMap("msss", EmptyMap)

\* The values that cannot be coerced to the shape a getter asks for: null;
\* a map or a slice where a scalar is asked for, a map where a slice is
\* asked for, a slice or a scalar other than a string where a map is; and
\* a string the parser of the requested type rejects.
Unparsable(op, s) ==
    CASE op = "GetInt" -> ~Atoi(s).ok
      [] op = "GetBool" -> ~ParseBool(s).ok
      [] op = "GetFloat64" -> ~ParseFloat(s).ok
      [] op = "GetDuration" -> ~ParseDuration(s).ok
      [] op \in {"GetStringMap", "GetStringMapString", "GetStringMapStringSlice"} -> TRUE
      [] OTHER -> FALSE

Uncoercible(op, tr) ==
    \/ tr.t = "nil"
    \/ tr.t = "string" /\ Unparsable(op, tr.s)
    \/ /\ op \in {"GetString", "GetInt", "GetBool", "GetFloat64", "GetDuration"}
       /\ tr.t \in MapKinds \cup SeqKinds
    \/ op \in {"GetStringSlice", "GetIntSlice"} /\ tr.t \in MapKinds
    \/ /\ op \in {"GetStringMap", "GetStringMapString", "GetStringMapStringSlice"}
       /\ tr.t \in SeqKinds \cup (ScalarKinds \ {"string"})

\* C25: a typed getter whose key is found in no layer, or whose resolved
\* value cannot be coerced to the requested shape (an unparsable string, a
\* container of the wrong kind, null), returns the zero value or the empty
\* container of its type, and leaves the store as it was.
C25_TypedGettersNeverFail ==
    ret.op \in TypedOps =>
        /\ (~ret.ok \/ Uncoercible(ret.op, ret.arg)) => ret.v = ZeroOf(ret.op)
        /\ Layers(heap, conf) = ret.before

(***************************************************************************)
(* Claims about Unmarshal, checked under SpecUnmarshal                     *)
(***************************************************************************)
\* The objects the store holds.
StoreObjects == Reach(heap, conf.values) \cup Reach(heap, conf.defaults)

\* C26: Unmarshal returns an error and does not decode when out is nil or
\* when a key that is not empty resolves in no layer; otherwise what it
\* decodes is a deep copy, with the content of the whole of values for the
\* empty key and of the resolved value for a found key, and sharing no map
\* or slice with the store; the store is as it was before the call.
C26_UnmarshalDecodesDeepCopy ==
    ret.op = "Unmarshal" =>
        /\ (ret.line = 751 \/ (ret.key # Empty /\ ~ret.ok)) =>
               ret.err # "" /\ ret.note # "decoded"
        /\ ret.note = "decoded" =>
               /\ ret.ok
               /\ NormTree(ret.v) = NormTree(ret.arg)
               /\ ret.key = Empty => ret.arg = Now
               /\ Reach(heap, callerData) \cap StoreObjects = {}
        /\ Layers(heap, conf) = ret.before

(***************************************************************************)
(* Claims about the order of reload and callback, checked under SpecWatch  *)
(***************************************************************************)
\* The content the reload of the listener w decoded for the event it is
\* dealing with: that of the document the file held when it was read.
Decoded(w) == Content(Docs[watchers[w].seen])

\* C23 as stated: whenever the callback for a write event runs, values
\* holds the content decoded by that event's reload.
C23_CallbackSeesReload ==
    \A w \in Watcher : watchers[w].pc = "call" => Now = Decoded(w)

\* The step is a call of another goroutine on the store returning, or the
\* reload of another listener.
OtherStoreStep(w) == ret' # ret \/ \E v \in Watcher \ {w} : Reloaded(v)

\* C23, amended: the listener gets to the callback of a write event only
\* after that event's reload has succeeded; when the reload returns, values
\* holds the content it decoded; and from then until the callback has run
\* values changes only by the step of another goroutine.
C23_ReloadThenNotify ==
    [][\A w \in Watcher :
          /\ watchers'[w].pc \in {"fetch", "call"} =>
                 watchers'[w].reload = "ok" /\ watchers'[w].seen # 0
          /\ (Reloaded(w) /\ watchers'[w].pc = "fetch") =>
                 Deep(heap', conf'.values) = Content(Docs[watchers'[w].seen])
          /\ (watchers[w].pc \in {"fetch", "call"} /\ Deep(heap', conf'.values) # Now) =>
                 OtherStoreStep(w)
      ]_vars

\* The listener is about to run the callback cb1 for a write of document
\* 2, its reload has succeeded and values holds the content of document 2.
C23_Witness ==
    \E w \in Watcher :
        /\ watchers[w].pc = "call" /\ watchers[w].callback = "cb1"
        /\ watchers[w].reload = "ok" /\ watchers[w].seen = 2
        /\ Now = Content(Docs[2]) /\ Now # EmptyTree

(***************************************************************************)
(* Claims about the lock, checked under SpecLock                           *)
(***************************************************************************)
\* Two goroutines are in sections of which one writes a field the other
\* reads or writes.
Race(g, o) ==
    /\ InSection(mu, g) /\ InSection(mu, o)
    /\ Writes(mu.g[g].op) \cap (Reads(mu.g[o].op) \cup Writes(mu.g[o].op)) # {}

\* C27: every section that reads a field of the Config runs with c.mu held,
\* shared or exclusive, every section that writes one with c.mu held
\* exclusively, and in no interleaving of GetInt, SetDefault, ReadInConfig,
\* MergeConfigMap, RegisterLoader, OnConfigChange, WatchConfig, Close and the
\* listener are two goroutines in sections of which one writes a field the
\* other reads or writes.
C27_NoFieldRace ==
    \A g \in Goroutine :
        InSection(mu, g) =>
            /\ mu.w = g \/ (mu.w = 0 /\ g \in mu.r)
            /\ Writes(mu.g[g].op) # {} => mu.w = g
            /\ \A o \in Goroutine \ {g} : ~Race(g, o)

\* A caller and the listener read under the shared lock at once while a
\* writer waits.
C27_Witness ==
    /\ At(2, "GetInt") /\ At(Listener, "fetch")
    /\ mu.r = {2, Listener} /\ 1 \in mu.q

\* A reload is between the reset of values and the end of its merge.
MidReload == \E g \in Goroutine : mu.g[g].pc = "merge"

\* C22: a getter that reads while reloads run reads values as a writer left
\* them when it released the lock, never between the reset and the end of
\* the merge of a reload.
C22_GetterSeesWholeValues ==
    \A g \in Goroutine :
        (InSection(mu, g) /\ mu.g[g].op = "GetInt") =>
            ~MidReload /\ Deep(heap, conf.values) = mu.whole

\* A getter called while a reload held the lock has read the value of the
\* reloaded document.
C22_Witness ==
    /\ mu.g[2].op = "GetInt" /\ mu.g[2].pc = "done" /\ mu.g[2].conc
    /\ mu.g[2].v = TInt(3) /\ mu.whole = Content(Docs[2])

(***************************************************************************)
(* Claims about the callback, checked under SpecCallback                   *)
(***************************************************************************)
\* The listener is in the callback, between two of its calls.
InCallback == mu.g[Listener].pc = "call"

\* C21: the listener holds c.mu neither shared nor exclusive while it is in
\* the callback, and a callback that calls GetInt, SetDefault, MergeConfigMap
\* and ReadInConfig returns, each of its calls being granted the lock, also
\* while other goroutines keep reading the Config.
C21_CallbackCompletes ==
    /\ [](InCallback => mu.w # Listener /\ Listener \notin mu.r)
    /\ InCallback ~> mu.g[Listener].pc = "select"

\* The callback has made all its calls, the last a reload, while a caller
\* is reading.
C21_Witness ==
    /\ InCallback /\ mu.g[Listener].cb = <<>>
    /\ conf.defaults.t = "ref" /\ StrV(<<"d">>) \in DOMAIN heap[conf.defaults.a].m
    /\ \E g \in Caller : At(g, "GetInt")

(***************************************************************************)
(* Claims about what ReadInConfig leaves alone, checked under SpecLoad     *)
(***************************************************************************)
\* C32: a ReadInConfig called with c.file and c.cfgName both empty returns
\* nil and changes nothing: the heap and every field of the Config are as
\* before, so values keeps its keys and c.file stays empty.
C32_UnnamedReadIsNoOp ==
    [][(conf.file = Empty /\ conf.cfgName = Empty /\ ret'.op = "ReadInConfig") =>
           /\ ret'.err = "" /\ ret'.ok
           /\ conf' = conf /\ heap' = heap
           /\ Deep(heap', conf'.values) = Deep(heap, conf.values)
           /\ conf'.file = Empty
      ]_vars

\* ReadInConfig has returned nil with neither a file nor a name set and
\* {a: {x: 1}} merged before.
C32_Witness ==
    /\ ret.op = "ReadInConfig" /\ ret.err = ""
    /\ conf.file = Empty /\ conf.cfgName = Empty
    /\ ret.before = T_ax1 /\ Now = T_ax1

\* C40: a ReadInConfig that returns an error leaves every field of the
\* Config as it was: defaults, values, loaders, the watch handle and c.file.
C40_FailedReadChangesNothing ==
    [][(ret'.op = "ReadInConfig" /\ ret'.err # "") =>
           /\ conf'.file = conf.file
           /\ conf' = conf /\ heap' = heap
      ]_vars

(***************************************************************************)
(* Claims about the start and the stop of the watch, checked under         *)
(* SpecStart                                                               *)
(***************************************************************************)
\* The store is idle: no handle is installed and no listener runs.
StoreIdle(c, ws) == c.watcher = 0 /\ c.watcherDone = 0 /\ \A w \in Watcher : ~Alive(ws, w)

\* C33: a WatchConfig called while c.file is empty returns nil from its first
\* section (config.go:421): the caller goes no further, and the call leaves
\* the Config, the watchers and the other calls as they were, so that a store
\* that was idle stays idle; while c.file is empty no step installs a handle;
\* and a Close called while no handle is installed returns nil at once and
\* changes nothing.
C33_WatchWithoutFileIsNoOp ==
    [][/\ \A t \in Caller :
             /\ (conf.file = Empty /\ calls[t] = NoCall) => calls'[t].op # "WatchConfig"
             /\ (conf.watcher = 0 /\ calls[t] = NoCall) => calls'[t].op # "Close"
       /\ conf.file = Empty => conf'.watcher \in {conf.watcher, 0}
       /\ (ret' # ret /\ ret'.op = "WatchConfig" /\ ret'.line = 421) =>
             /\ conf.file = Empty /\ ret'.err = ""
             /\ conf' = conf /\ watchers' = watchers /\ calls' = calls /\ heap' = heap
             /\ StoreIdle(conf, watchers) => StoreIdle(conf', watchers')
       /\ (ret' # ret /\ ret'.op = "Close" /\ ret'.line = 491) =>
             /\ conf.watcher = 0 /\ ret'.err = ""
             /\ conf' = conf /\ watchers' = watchers /\ calls' = calls /\ heap' = heap
      ]_vars

\* A WatchConfig has returned nil at config.go:421 on a store with no file,
\* and the store is idle with no call under way.
C33_Witness ==
    /\ ret = Returned("WatchConfig", "", 421, "")
    /\ conf.file = Empty
    /\ StoreIdle(conf, watchers)
    /\ \A w \in Watcher : watchers[w] = FreeWatcher
    /\ \A t \in Caller : calls[t] = NoCall

\* C34: when a WatchConfig call returns an error, the store is idle: no
\* handle is installed and no listener runs.
C34_FailedWatchLeavesIdle ==
    [][\A t \in Caller :
          (calls[t].op = "WatchConfig" /\ calls'[t] = NoCall /\ ret'.op = "WatchConfig"
              /\ ret'.err # "") => StoreIdle(conf', watchers')
      ]_vars

\* C35: at most one listener goroutine is alive at any moment, whatever the
\* interleaving of the WatchConfig and Close calls of two goroutines.
C35_OneListener == Cardinality({w \in Watcher : Alive(watchers, w)}) <= 1

\* C36: when a Close call returns while another goroutine is in a Close call
\* of its own, the listener that call is stopping has exited.
C36_NoCloseReturnsEarly ==
    [][\A o \in Caller :
          (ret' # ret /\ ret'.op = "Close" /\ calls[o].op = "Close" /\ calls'[o] = calls[o])
              => ~Alive(watchers', calls[o].w)
      ]_vars

(***************************************************************************)
(* Claims about the end of Close, checked under SpecStop                   *)
(***************************************************************************)
\* One goroutine starts and stops the watch while the file is rewritten with
\* documents that decode and that do not, the callback is set and the
\* watcher reports errors.
NextStop ==
    \/ SetConfigFile(pJ)
    \/ \E n \in {1, 3} : WriteFile(pJ, n)
    \/ OnConfigChange("cb1")
    \/ WatchConfigBegin(1)
    \/ WatchConfigNew(1)
    \/ WatchConfigInstall(1)
    \/ WatchConfigStart(1)
    \/ CloseBegin(1)
    \/ CloseWatcher(1)
    \/ CloseWait(1)
    \/ \E w \in Watcher :
          \/ WatcherError(w)
          \/ ListenerError(w)
          \/ ListenerReceive(w)
          \/ ListenerReload(w)
          \/ ListenerFetch(w)
          \/ ListenerCall(w)
          \/ ListenerClosed(w)

\* The scheduler runs the listener and the goroutine that is in Close: the
\* call of w.Close() returns, and the receive from done is taken once done
\* is closed.  The callback is one step of the listener: it returns.
SpecStop ==
    /\ Init /\ [][NextStop]_vars
    /\ ListenerFair
    /\ \A w \in Watcher : WF_vars(ListenerError(w))
    /\ WF_vars(CloseWatcher(1)) /\ WF_vars(CloseWait(1))

\* C37: a Close call that has found the handle installed returns in the end,
\* wherever the listener was in its loop; at the return the listener it
\* stopped has exited and the store is idle.
C37_CloseReturns ==
    /\ \A t \in Caller : calls[t].op = "Close" ~> calls[t] = NoCall
    /\ [][\A t \in Caller :
             (calls[t].op = "Close" /\ calls'[t] = NoCall) =>
                 /\ ret'.op = "Close" /\ ret'.line = 502
                 /\ ~Alive(watchers', calls[t].w)
                 /\ StoreIdle(conf', watchers')
         ]_vars

\* A Close called while the listener was in the callback has returned, and
\* the store is idle.
C37_Witness ==
    /\ ret.op = "Close" /\ ret.line = 502 /\ ret.note = "call"
    /\ StoreIdle(conf, watchers)
    /\ \A t \in Caller : calls[t] = NoCall

(***************************************************************************)
(* Claims about the file a reload reads, checked under SpecRetarget        *)
(***************************************************************************)
\* One goroutine starts the watch; the configuration file is set to one of
\* two paths before and after, and both files are written.
NextRetarget ==
    \/ \E f \in {pJ, pK} : SetConfigFile(f)
    \/ \E w \in {<<pJ, 1>>, <<pJ, 2>>, <<pK, 4>>} : WriteFile(w[1], w[2])
    \/ RegisterLoader(<<".", "K">>, "KeepLoader")
    \/ WatchConfigBegin(1)
    \/ WatchConfigNew(1)
    \/ WatchConfigInstall(1)
    \/ WatchConfigStart(1)
    \/ \E w \in Watcher :
          \/ ListenerReceive(w)
          \/ ListenerReload(w)
          \/ ListenerFetch(w)

SpecRetarget == Init /\ [][NextRetarget]_vars

\* C39: when the reload a listener does for a write event succeeds, values
\* holds the content of the path the listener watches.
C39_ReloadReadsWatchedFile ==
    [][\A w \in Watcher :
          (Reloaded(w) /\ watchers'[w].reload = "ok") =>
              \A p \in watchers[w].paths :
                  Deep(heap', conf'.values) = Content(Docs[fs[p]])
      ]_vars

(***************************************************************************)
(* Claims about a callback that stops the watch, checked under             *)
(* SpecCallbackClose                                                       *)
(***************************************************************************)
\* The Config with the watch started and a callback registered that calls
\* Close.
InitCallbackClose ==
    /\ heap = New(EmptyHeap).h
    /\ conf = [New(EmptyHeap).c EXCEPT !.file = pJ, !.onChange = "cbClose",
                                       !.watcher = 1, !.watcherDone = 1]
    /\ environ = NoBindings
    /\ fs = [p \in {pJ} |-> 1]
    /\ callerData = NilV
    /\ loaderData = NilV
    /\ ret = Void
    /\ registered = <<>>
    /\ watchers = [w \in Watcher |-> FreeWatcher]
    /\ calls = [t \in Caller |-> NoCall]
    /\ mu = [Unlocked EXCEPT !.open = TRUE, !.g[Listener].pc = "select"]
    /\ other = NoConfig

\* The file is rewritten, the listener reloads it and runs the callback;
\* one caller reads a key and the other may call Close as well.
NextCallbackClose ==
    \/ Call(1, "Close")
    \/ Call(2, "GetInt")
    \/ \E g \in Goroutine :
          \/ Acquire(g)
          \/ InGetInt(g)
          \/ InClose(g)
          \/ InFetch(g)
          \/ InReadInConfig(g)
          \/ MergeKey(g)
          \/ MergeEnd(g)
          \/ Release(g)
          \/ CloseJoin(g)
    \/ ListenerTake
    \/ CallbackCall
    \/ CallbackReturn
    \/ \E n \in {1, 2} : FileWrite(n)

\* The scheduler runs every goroutine that can run, and a receive from done
\* is taken once the listener has returned.
SpecCallbackClose ==
    /\ InitCallbackClose /\ [][NextCallbackClose]_vars
    /\ GoroutinesFair
    /\ \A g \in Goroutine : WF_vars(CloseJoin(g))

\* C38: when the callback calls Close, the listener terminates in the end.
C38_CallbackCloseReturns ==
    (mu.g[Listener].from = "callback" /\ mu.g[Listener].op = "Close")
        ~> (mu.g[Listener].pc = "off")

(***************************************************************************)
(* Claims about two Configs of one process, checked under SpecTwo          *)
(***************************************************************************)
\* config.go: New, called a second time: the new Config is other
NewConfig ==
    /\ other = NoConfig
    /\ Cardinality(FreeAddrs(heap)) >= 2
    /\ FinishBoth(New(heap).h, conf, New(heap).c, callerData, loaderData)
    /\ ret' = [Void EXCEPT !.op = "New"]
    /\ UNCHANGED <<environ, mu, fs, registered, watchers, calls>>

\* The caller turns to the other Config: the calls that follow are made on
\* it.  No call is under way.
Switch ==
    /\ other # NoConfig
    /\ \A t \in Caller : calls[t] = NoCall
    /\ FinishBoth(heap, other, conf, callerData, loaderData)
    /\ ret' = Void
    /\ UNCHANGED <<environ, mu, fs, registered, watchers, calls>>

\* A goroutine makes a second Config and calls both: defaults are set, maps
\* merged, a loader registered, the file read, the watch started and stopped.
NextTwo ==
    \/ NewConfig
    \/ Switch
    \/ SetConfigFile(pJ)
    \/ SetDefault(kK, TInt(1))
    \/ MergeConfigMap(T_kr)
    \/ RegisterLoader(<<".", "K">>, "KeepLoader")
    \/ ReadInConfig
    \/ WatchConfigBegin(1)
    \/ WatchConfigNew(1)
    \/ WatchConfigInstall(1)
    \/ WatchConfigStart(1)
    \/ CloseBegin(1)
    \/ CloseWatcher(1)
    \/ CloseWait(1)
    \/ \E w \in Watcher : ListenerClosed(w)

SpecTwo == InitStart /\ [][NextTwo]_vars

\* What a Config holds: its fields, with the content of its two maps, and
\* the watcher it has installed with that watcher's listener.
View(h, c, ws) ==
    [fields |-> [c EXCEPT !.defaults = Deep(h, c.defaults), !.values = Deep(h, c.values)],
     watch |-> IF c.watcher = 0 THEN FreeWatcher ELSE ws[c.watcher]]

====
